---- MODULE Spec2Model ----
(***************************************************************************)
(* A model of the gitlab-mcp-server request/response pipeline:             *)
(* parameter validators, configuration resolution, the authenticated HTTP  *)
(* call, the error-classification wrapper, field filtering and pagination  *)
(* wrapping, and the tool layer that composes them.                        *)
(*                                                                         *)
(* Python strings that the program inspects (splits, strips, parses,       *)
(* compares with literals) are sequences of one-character strings.  Python *)
(* values carry their type in the field t.                                 *)
(***************************************************************************)
EXTENDS Integers, Sequences, FiniteSets, TLC

VARIABLES
    env,      \* the process environment: GITLAB_TOKEN, GITLAB_URL, GITLAB_VERIFY_SSL
    pc,       \* per invocation slot: position inside the tool call
    tool,     \* per slot: name of the invoked tool
    args,     \* per slot: the arguments the caller passed
    vals,     \* per slot: the arguments after validation (coerced, stripped)
    cfg,      \* per slot: the Configuration resolved by this invocation
    reqs,     \* per slot: the outbound requests issued by this invocation
    resp,     \* per slot: what the remote answered
    result,   \* per slot: what the invocation gave back to its caller
    fn,       \* the pure function applied directly (shaper specification)
    fnArgs,   \* its inputs
    fnRet,    \* its output
    default_fields  \* the module-level dict DEFAULT_FIELDS as it is now

vars == <<env, pc, tool, args, vals, cfg, reqs, resp, result, fn, fnArgs, fnRet,
          default_fields>>

----------------------------------------------------------------------------
(* Python values *)

PyNone == [t |-> "NoneType"]
PyInt(n) == [t |-> "int", v |-> n]
\* a float with one decimal digit: Float(12, 0) is 12.0
PyFloat(w, d) == [t |-> "float", w |-> w, d |-> d]
PyStr(cs) == [t |-> "str", v |-> cs]
PyBool(b) == [t |-> "bool", v |-> b]
PyList(xs) == [t |-> "list", v |-> xs]
PyDict(f) == [t |-> "dict", v |-> f]

\* the empty dict
EmptyMap == [k \in {} |-> PyNone]

\* Python truthiness (bool(x))
Truthy(x) ==
    CASE x.t = "NoneType" -> FALSE
      [] x.t = "int" -> x.v # 0
      [] x.t = "float" -> ~(x.w = 0 /\ x.d = 0)
      [] x.t = "str" -> Len(x.v) > 0
      [] x.t = "bool" -> x.v
      [] x.t = "list" -> Len(x.v) > 0
      [] x.t = "dict" -> DOMAIN x.v # {}

----------------------------------------------------------------------------
(* Character-level string operations *)

Whitespace == {" ", "\t", "\n"}
Digits == <<"0", "1", "2", "3", "4", "5", "6", "7", "8", "9">>
DigitSet == {Digits[i] : i \in 1..10}
DigitVal(c) == (CHOOSE i \in 1..10 : Digits[i] = c) - 1

RECURSIVE LStrip(_)
\* str.lstrip() with no argument
LStrip(cs) ==
    IF cs # <<>> /\ Head(cs) \in Whitespace THEN LStrip(Tail(cs)) ELSE cs

RECURSIVE RStripWs(_)
\* str.rstrip() with no argument
RStripWs(cs) ==
    IF cs # <<>> /\ cs[Len(cs)] \in Whitespace
    THEN RStripWs(SubSeq(cs, 1, Len(cs) - 1)) ELSE cs

\* str.strip()
Strip(cs) == RStripWs(LStrip(cs))

RECURSIVE RStrip(_, _)
\* str.rstrip(chars)
RStrip(cs, chars) ==
    IF cs # <<>> /\ cs[Len(cs)] \in chars
    THEN RStrip(SubSeq(cs, 1, Len(cs) - 1), chars) ELSE cs

\* str.startswith(prefix)
StartsWith(cs, prefix) ==
    Len(cs) >= Len(prefix) /\ SubSeq(cs, 1, Len(prefix)) = prefix

RECURSIVE Split(_, _)
\* str.split(sep) for a one-character separator: always at least one piece
Split(cs, sep) ==
    IF \E i \in 1..Len(cs) : cs[i] = sep
    THEN LET i == CHOOSE j \in 1..Len(cs) :
                      cs[j] = sep /\ \A k \in 1..(j - 1) : cs[k] # sep
         IN <<SubSeq(cs, 1, i - 1)>> \o Split(SubSeq(cs, i + 1, Len(cs)), sep)
    ELSE <<cs>>

RECURSIVE NatToStr(_)
\* decimal digits of a natural number
NatToStr(n) ==
    IF n < 10 THEN <<Digits[n + 1]>>
    ELSE NatToStr(n \div 10) \o <<Digits[(n % 10) + 1]>>

\* str(n) for an int
IntToStr(n) == IF n < 0 THEN <<"-">> \o NatToStr(0 - n) ELSE NatToStr(n)

RECURSIVE DigitsToNat(_, _)
DigitsToNat(cs, acc) ==
    IF cs = <<>> THEN acc
    ELSE DigitsToNat(Tail(cs), acc * 10 + DigitVal(Head(cs)))

AllDigits(cs) == cs # <<>> /\ \A i \in 1..Len(cs) : cs[i] \in DigitSet

\* int(s) for a str: surrounding whitespace is ignored, one optional sign,
\* then decimal digits; anything else raises ValueError.
IntOfStr(cs) ==
    LET s == Strip(cs)
        signed == s # <<>> /\ Head(s) \in {"+", "-"}
        body == IF signed THEN Tail(s) ELSE s
    IN IF AllDigits(body)
       THEN [ok |-> TRUE,
             v |-> IF signed /\ Head(s) = "-"
                   THEN 0 - DigitsToNat(body, 0) ELSE DigitsToNat(body, 0)]
       ELSE [ok |-> FALSE, v |-> 0]

\* int(x) where x is neither int nor float: a str is parsed, every other
\* type raises TypeError.  ok = FALSE stands for (ValueError, TypeError).
IntOf(x) ==
    IF x.t = "str" THEN IntOfStr(x.v) ELSE [ok |-> FALSE, v |-> 0]

\* isinstance(x, int): bool is a subclass of int
IsInstanceInt(x) == x.t \in {"int", "bool"}

\* the integer an int-instance stands for in comparisons
IntValue(x) == IF x.t = "bool" THEN (IF x.v THEN 1 ELSE 0) ELSE x.v

\* format(x) as it appears in an f-string
Format(x) ==
    CASE x.t = "NoneType" -> <<"N", "o", "n", "e">>
      [] x.t = "int" -> IntToStr(x.v)
      [] x.t = "float" ->
            (IF x.w < 0 THEN <<"-">> ELSE <<>>)
            \o NatToStr(IF x.w < 0 THEN 0 - x.w ELSE x.w) \o <<".">> \o NatToStr(x.d)
      [] x.t = "str" -> x.v
      [] x.t = "bool" -> IF x.v THEN <<"T", "r", "u", "e">>
                         ELSE <<"F", "a", "l", "s", "e">>
      [] x.t = "list" -> <<"[", "]">>
      [] x.t = "dict" -> <<"{", "}">>

\* type(x).__name__
TypeName(x) == x.t

----------------------------------------------------------------------------
(* Outcomes of a call: a returned value or a raised exception *)

Return(v) == [kind |-> "return", value |-> v]
Raise(e) == [kind |-> "raise", exc |-> e]
Returned(o) == o.kind = "return"
Raised(o) == o.kind = "raise"

\* The text of an exception message: the literal text of the source's
\* f-string, the parameter it names, and the interpolated type name and value.
Msg(param, text, type, value) ==
    [param |-> param, text |-> text, type |-> type, value |-> value]

ValueError(msg) == [cls |-> "ValueError", msg |-> msg]

\* f"{param} must be an integer, got {type(x).__name__}: {x}"
MustBeInteger(param, x) ==
    Msg(param, " must be an integer, got ", TypeName(x), Format(x))

\* f"{param} must be a positive integer, got: {x}"
MustBePositive(param, x) ==
    Msg(param, " must be a positive integer, got: ", "", Format(x))

\* f"{param} must be a string, got {type(x).__name__}: {x}"
MustBeString(param, x) ==
    Msg(param, " must be a string, got ", TypeName(x), Format(x))

\* f"{param} cannot be empty or whitespace only"
CannotBeEmpty(param) ==
    Msg(param, " cannot be empty or whitespace only", "", <<>>)

----------------------------------------------------------------------------
(* Parameter validators *)

\* validate_project_id with the range test letting zero through
validate_project_id_accepts_zero(project_id) ==
    IF project_id.t = "float"
    THEN Raise(ValueError(MustBeInteger("project_id", project_id)))
    ELSE IF ~IsInstanceInt(project_id) /\ ~IntOf(project_id).ok
    THEN Raise(ValueError(MustBeInteger("project_id", project_id)))
    ELSE LET coerced == IF IsInstanceInt(project_id) THEN project_id ELSE PyInt(IntOf(project_id).v)
         IN IF IntValue(coerced) < 0
            THEN Raise(ValueError(MustBePositive("project_id", coerced)))
            ELSE Return(coerced)

\* validate_project_id: floats rejected, int(...) coercion, range check
validate_project_id(project_id) ==
    IF project_id.t = "float"
    THEN Raise(ValueError(MustBeInteger("project_id", project_id)))
    ELSE IF ~IsInstanceInt(project_id) /\ ~IntOf(project_id).ok
    THEN Raise(ValueError(MustBeInteger("project_id", project_id)))
    ELSE LET coerced == IF IsInstanceInt(project_id) THEN project_id ELSE PyInt(IntOf(project_id).v)
         IN IF IntValue(coerced) <= 0
            THEN Raise(ValueError(MustBePositive("project_id", coerced)))
            ELSE Return(coerced)

\* validate_branch_name: a str whose stripped form is non-empty; returns it stripped
validate_branch_name(branch_name) ==
    IF branch_name.t # "str"
    THEN Raise(ValueError(MustBeString("branch_name", branch_name)))
    ELSE IF Strip(branch_name.v) = <<>>
    THEN Raise(ValueError(CannotBeEmpty("branch_name")))
    ELSE Return(PyStr(Strip(branch_name.v)))

\* per_page upper limit of validate_pagination
MaxPerPage == 100

\* one half of validate_pagination: the float test, the coercion and the
\* lower bound, as written once for page and once for per_page
PaginationInt(param, x) ==
    IF x.t = "float"
    THEN Raise(ValueError(MustBeInteger(param, x)))
    ELSE IF ~IsInstanceInt(x) /\ ~IntOf(x).ok
    THEN Raise(ValueError(MustBeInteger(param, x)))
    ELSE LET coerced == IF IsInstanceInt(x) THEN x ELSE PyInt(IntOf(x).v)
         IN IF IntValue(coerced) < 1
            THEN Raise(ValueError(Msg(param, " must be >= 1, got: ", "", Format(coerced))))
            ELSE Return(coerced)

\* validate_pagination rejecting the limit itself
validate_pagination_limit_exclusive(page, per_page) ==
    LET p == PaginationInt("page", page)
        pp == PaginationInt("per_page", per_page)
    IN IF Raised(p) THEN p
       ELSE IF Raised(pp) THEN pp
       ELSE IF IntValue(pp.value) >= MaxPerPage
       THEN Raise(ValueError(Msg("per_page", " must be <= 100, got: ", "",
                                 Format(pp.value))))
       ELSE Return([page |-> p.value, per_page |-> pp.value])

\* validate_pagination without the upper limit of per_page
validate_pagination_no_upper_limit(page, per_page) ==
    LET p == PaginationInt("page", page)
        pp == PaginationInt("per_page", per_page)
    IN IF Raised(p) THEN p
       ELSE IF Raised(pp) THEN pp
       ELSE Return([page |-> p.value, per_page |-> pp.value])

\* validate_pagination: page is checked completely before per_page
validate_pagination(page, per_page) ==
    LET p == PaginationInt("page", page)
        pp == PaginationInt("per_page", per_page)
    IN IF Raised(p) THEN p
       ELSE IF Raised(pp) THEN pp
       ELSE IF IntValue(pp.value) > MaxPerPage
       THEN Raise(ValueError(Msg("per_page", " must be <= 100, got: ", "",
                                 Format(pp.value))))
       ELSE Return([page |-> p.value, per_page |-> pp.value])

\* validate_iid(iid, param_name)
validate_iid(iid, param_name) ==
    IF iid.t = "float"
    THEN Raise(ValueError(MustBeInteger(param_name, iid)))
    ELSE IF ~IsInstanceInt(iid) /\ ~IntOf(iid).ok
    THEN Raise(ValueError(MustBeInteger(param_name, iid)))
    ELSE LET coerced == IF IsInstanceInt(iid) THEN iid ELSE PyInt(IntOf(iid).v)
         IN IF IntValue(coerced) <= 0
            THEN Raise(ValueError(MustBePositive(param_name, coerced)))
            ELSE Return(coerced)

\* validate_group_id
validate_group_id(group_id) ==
    IF group_id.t = "float"
    THEN Raise(ValueError(MustBeInteger("group_id", group_id)))
    ELSE IF ~IsInstanceInt(group_id) /\ ~IntOf(group_id).ok
    THEN Raise(ValueError(MustBeInteger("group_id", group_id)))
    ELSE LET coerced == IF IsInstanceInt(group_id) THEN group_id ELSE PyInt(IntOf(group_id).v)
         IN IF IntValue(coerced) <= 0
            THEN Raise(ValueError(MustBePositive("group_id", coerced)))
            ELSE Return(coerced)

\* validate_user_id
validate_user_id(user_id) ==
    IF user_id.t = "float"
    THEN Raise(ValueError(MustBeInteger("user_id", user_id)))
    ELSE IF ~IsInstanceInt(user_id) /\ ~IntOf(user_id).ok
    THEN Raise(ValueError(MustBeInteger("user_id", user_id)))
    ELSE LET coerced == IF IsInstanceInt(user_id) THEN user_id ELSE PyInt(IntOf(user_id).v)
         IN IF IntValue(coerced) <= 0
            THEN Raise(ValueError(MustBePositive("user_id", coerced)))
            ELSE Return(coerced)

\* the inline check of issue_iid without the int() conversion
check_issue_iid_no_coercion(issue_iid) ==
    IF issue_iid.t = "float"
    THEN Raise(ValueError(MustBeInteger("issue_iid", issue_iid)))
    ELSE IF ~IsInstanceInt(issue_iid)
    THEN Raise(ValueError(MustBeInteger("issue_iid", issue_iid)))
    ELSE LET coerced == IF IsInstanceInt(issue_iid) THEN issue_iid ELSE PyInt(IntOf(issue_iid).v)
         IN IF IntValue(coerced) <= 0
            THEN Raise(ValueError(MustBePositive("issue_iid", coerced)))
            ELSE Return(coerced)

\* the issue_iid check written inline in the issue tools
check_issue_iid(issue_iid) ==
    IF issue_iid.t = "float"
    THEN Raise(ValueError(MustBeInteger("issue_iid", issue_iid)))
    ELSE IF ~IsInstanceInt(issue_iid) /\ ~IntOf(issue_iid).ok
    THEN Raise(ValueError(MustBeInteger("issue_iid", issue_iid)))
    ELSE LET coerced == IF IsInstanceInt(issue_iid) THEN issue_iid ELSE PyInt(IntOf(issue_iid).v)
         IN IF IntValue(coerced) <= 0
            THEN Raise(ValueError(MustBePositive("issue_iid", coerced)))
            ELSE Return(coerced)

\* GitLab access levels (Guest, Reporter, Developer, Maintainer, Owner)
VALID_ACCESS_LEVELS == {10, 20, 30, 40, 50}

\* validate_access_level
validate_access_level(access_level) ==
    IF access_level.t = "float"
    THEN Raise(ValueError(MustBeInteger("access_level", access_level)))
    ELSE IF ~IsInstanceInt(access_level) /\ ~IntOf(access_level).ok
    THEN Raise(ValueError(MustBeInteger("access_level", access_level)))
    ELSE LET coerced == IF IsInstanceInt(access_level) THEN access_level
                        ELSE PyInt(IntOf(access_level).v)
         IN IF IntValue(coerced) \notin VALID_ACCESS_LEVELS
            THEN Raise(ValueError(Msg("access_level",
                     " must be one of (10, 20, 30, 40, 50) (10=Guest, 20=Reporter, 30=Developer, 40=Maintainer, 50=Owner), got: ",
                     "", Format(coerced))))
            ELSE Return(coerced)

\* validate_non_empty_string(value, param_name): returns the stripped string
validate_non_empty_string(value, param_name) ==
    IF value.t # "str"
    THEN Raise(ValueError(MustBeString(param_name, value)))
    ELSE IF Strip(value.v) = <<>>
    THEN Raise(ValueError(CannotBeEmpty(param_name)))
    ELSE Return(PyStr(Strip(value.v)))

\* the string checks written inline in the file, commit, tag, pipeline and
\* user-search tools: same tests as validate_non_empty_string; the text of the
\* second message names the parameter as `shown`
check_inline_string(value, param_name, shown) ==
    IF value.t # "str"
    THEN Raise(ValueError(MustBeString(param_name, value)))
    ELSE IF Strip(value.v) = <<>>
    THEN Raise(ValueError(CannotBeEmpty(shown)))
    ELSE Return(PyStr(Strip(value.v)))

s_private == <<"p", "r", "i", "v", "a", "t", "e">>
s_internal == <<"i", "n", "t", "e", "r", "n", "a", "l">>
s_public == <<"p", "u", "b", "l", "i", "c">>
VALID_VISIBILITY_LEVELS == {PyStr(s_private), PyStr(s_internal), PyStr(s_public)}

\* validate_visibility
validate_visibility(visibility) ==
    IF visibility \notin VALID_VISIBILITY_LEVELS
    THEN Raise(ValueError(Msg("visibility",
             " must be one of ('private', 'internal', 'public'), got: ", "",
             Format(visibility))))
    ELSE Return(visibility)

\* `if x and x not in (...)`: the enumeration checks of the list and update tools
check_enum(value, param_name, allowed, text) ==
    IF Truthy(value) /\ value \notin allowed
    THEN Raise(ValueError(Msg(param_name, text, "", Format(value))))
    ELSE Return(value)

\* `if x not in (...)`: the encoding check of create_file and update_file
check_member(value, param_name, allowed, text) ==
    IF value \notin allowed
    THEN Raise(ValueError(Msg(param_name, text, "", Format(value))))
    ELSE Return(value)

----------------------------------------------------------------------------
(* Configuration resolver *)

LowerMap ==
    ("A" :> "a") @@ ("B" :> "b") @@ ("C" :> "c") @@ ("D" :> "d") @@ ("E" :> "e") @@ ("F" :> "f") @@
    ("G" :> "g") @@ ("H" :> "h") @@ ("I" :> "i") @@ ("J" :> "j") @@ ("K" :> "k") @@ ("L" :> "l") @@
    ("M" :> "m") @@ ("N" :> "n") @@ ("O" :> "o") @@ ("P" :> "p") @@ ("Q" :> "q") @@ ("R" :> "r") @@
    ("S" :> "s") @@ ("T" :> "t") @@ ("U" :> "u") @@ ("V" :> "v") @@ ("W" :> "w") @@ ("X" :> "x") @@
    ("Y" :> "y") @@ ("Z" :> "z")

\* str.lower(), character by character
Lower(cs) == [i \in 1..Len(cs) |-> IF cs[i] \in DOMAIN LowerMap THEN LowerMap[cs[i]] ELSE cs[i]]

\* os.getenv(name, default): the value when the variable is set, else the default
getenv(e, name, default) == IF e[name].t = "NoneType" THEN default ELSE e[name]

\* get_gitlab_config testing the token with `is None`
get_gitlab_config_accepts_empty_token(e) ==
    LET s_http == <<"h", "t", "t", "p", ":", "/", "/">>
        s_https == <<"h", "t", "t", "p", "s", ":", "/", "/">>
        s_gitlab_com == <<"h", "t", "t", "p", "s", ":", "/", "/", "g", "i", "t", "l", "a", "b", ".", "c", "o", "m">>
        s_true == <<"t", "r", "u", "e">>
        s_1 == <<"1">>
        s_yes == <<"y", "e", "s">>
        token == getenv(e, "GITLAB_TOKEN", PyNone)
        base_url == getenv(e, "GITLAB_URL", PyStr(s_gitlab_com)).v
        verify_ssl_str == Lower(getenv(e, "GITLAB_VERIFY_SSL", PyStr(s_true)).v)
    IN IF token.t = "NoneType"
       THEN Raise(ValueError(Msg("GITLAB_TOKEN",
                " environment variable is required. Generate a token at https://gitlab.com/-/profile/personal_access_tokens",
                "", <<>>)))
       ELSE IF ~StartsWith(base_url, s_http) /\ ~StartsWith(base_url, s_https)
       THEN Raise(ValueError(Msg("GITLAB_URL",
                " must start with http:// or https://, got: ", "", base_url)))
       ELSE Return([base_url |-> RStrip(base_url, {"/"}),
                    token |-> token.v,
                    verify_ssl |-> verify_ssl_str \in {s_true, s_1, s_yes}])

\* get_gitlab_config comparing the flag without lower-casing it
get_gitlab_config_case_sensitive(e) ==
    LET s_http == <<"h", "t", "t", "p", ":", "/", "/">>
        s_https == <<"h", "t", "t", "p", "s", ":", "/", "/">>
        s_gitlab_com == <<"h", "t", "t", "p", "s", ":", "/", "/", "g", "i", "t", "l", "a", "b", ".", "c", "o", "m">>
        s_true == <<"t", "r", "u", "e">>
        s_1 == <<"1">>
        s_yes == <<"y", "e", "s">>
        token == getenv(e, "GITLAB_TOKEN", PyNone)
        base_url == getenv(e, "GITLAB_URL", PyStr(s_gitlab_com)).v
        verify_ssl_str == getenv(e, "GITLAB_VERIFY_SSL", PyStr(s_true)).v
    IN IF ~Truthy(token)
       THEN Raise(ValueError(Msg("GITLAB_TOKEN",
                " environment variable is required. Generate a token at https://gitlab.com/-/profile/personal_access_tokens",
                "", <<>>)))
       ELSE IF ~StartsWith(base_url, s_http) /\ ~StartsWith(base_url, s_https)
       THEN Raise(ValueError(Msg("GITLAB_URL",
                " must start with http:// or https://, got: ", "", base_url)))
       ELSE Return([base_url |-> RStrip(base_url, {"/"}),
                    token |-> token.v,
                    verify_ssl |-> verify_ssl_str \in {s_true, s_1, s_yes}])

\* get_gitlab_config: token required; URL defaulted, checked for its scheme
\* prefix and stripped of trailing slashes; TLS flag lower-cased and compared
get_gitlab_config(e) ==
    LET s_http == <<"h", "t", "t", "p", ":", "/", "/">>
        s_https == <<"h", "t", "t", "p", "s", ":", "/", "/">>
        s_gitlab_com == <<"h", "t", "t", "p", "s", ":", "/", "/", "g", "i", "t", "l", "a", "b", ".", "c", "o", "m">>
        s_true == <<"t", "r", "u", "e">>
        s_1 == <<"1">>
        s_yes == <<"y", "e", "s">>
        token == getenv(e, "GITLAB_TOKEN", PyNone)
        base_url == getenv(e, "GITLAB_URL", PyStr(s_gitlab_com)).v
        verify_ssl_str == Lower(getenv(e, "GITLAB_VERIFY_SSL", PyStr(s_true)).v)
    IN IF ~Truthy(token)
       THEN Raise(ValueError(Msg("GITLAB_TOKEN",
                " environment variable is required. Generate a token at https://gitlab.com/-/profile/personal_access_tokens",
                "", <<>>)))
       ELSE IF ~StartsWith(base_url, s_http) /\ ~StartsWith(base_url, s_https)
       THEN Raise(ValueError(Msg("GITLAB_URL",
                " must start with http:// or https://, got: ", "", base_url)))
       ELSE Return([base_url |-> RStrip(base_url, {"/"}),
                    token |-> token.v,
                    verify_ssl |-> verify_ssl_str \in {s_true, s_1, s_yes}])

----------------------------------------------------------------------------
(* Error classifier (errors.py) *)

\* Python strings the program only passes on: a literal, or an f-string made
\* of a literal text and one interpolated value
Lit(text) == [t |-> "str", text |-> text, value |-> <<>>]
FStr(text, value) == [t |-> "str", text |-> text, value |-> value]
\* str(e) of an exception: its message
StrOfExc(e) == [t |-> "str", msg |-> e.msg]

\* exception classes and their base classes (the classes an except clause
\* of handle_gitlab_errors can name)
Bases ==
    [HTTPStatusError |-> {"HTTPStatusError", "Exception"},
     ConnectError |-> {"ConnectError", "Exception"},
     TimeoutException |-> {"TimeoutException", "Exception"},
     ConnectTimeout |-> {"ConnectTimeout", "TimeoutException", "Exception"},
     ReadTimeout |-> {"ReadTimeout", "TimeoutException", "Exception"},
     ReadError |-> {"ReadError", "Exception"},
     ValueError |-> {"ValueError", "Exception"},
     JSONDecodeError |-> {"JSONDecodeError", "ValueError", "Exception"},
     TypeError |-> {"TypeError", "Exception"},
     RuntimeError |-> {"RuntimeError", "Exception"},
     AttributeError |-> {"AttributeError", "Exception"}]

\* isinstance(e, cls)
IsInstance(e, cls) == cls \in Bases[e.cls]

k_message == <<"m", "e", "s", "s", "a", "g", "e">>

\* the details taken from the raw text alone
http_error_details_text_only(response) == response.text

\* the details extraction of format_http_error: response.json().get("message",
\* response.text); any exception on the way (undecodable body, a decoded value
\* without .get) falls back to response.text
http_error_details(response) ==
    IF Returned(response.json) /\ response.json.value.t = "dict"
    THEN IF k_message \in DOMAIN response.json.value.v
         THEN response.json.value.v[k_message]
         ELSE response.text
    ELSE response.text

ErrorRecord(error_type, message, details, action) ==
    [error |-> TRUE, error_type |-> error_type, message |-> message,
     details |-> details, action |-> action]

\* the server-error range without its upper end
format_http_error_open_range(error) ==
    LET status_code == error.response.status_code
        details == http_error_details(error.response)
    IN IF status_code >= 500 /\ status_code \notin {401, 403, 404, 422, 429}
       THEN ErrorRecord("ServerError",
                FStr("GitLab server error ({status_code})", IntToStr(status_code)), details,
                Lit("The GitLab server encountered an error. Try again later or contact your GitLab administrator."))
       ELSE IF status_code = 404
       THEN ErrorRecord("NotFoundError", Lit("Resource not found"), details,
                Lit("Verify the resource ID or path is correct."))
       ELSE ErrorRecord("HTTPError",
                FStr("HTTP error {status_code}", IntToStr(status_code)), details,
                Lit("Check the GitLab API documentation for this endpoint."))

\* format_http_error
format_http_error(error) ==
    LET status_code == error.response.status_code
        details == http_error_details(error.response)
    IN IF status_code = 401
       THEN ErrorRecord("AuthenticationError", Lit("Authentication failed"), details,
                Lit("Check your GITLAB_TOKEN. Generate a new token at https://gitlab.com/-/profile/personal_access_tokens"))
       ELSE IF status_code = 403
       THEN ErrorRecord("AuthorizationError", Lit("Access forbidden"), details,
                Lit("Your token does not have permission for this operation. Check token scopes."))
       ELSE IF status_code = 404
       THEN ErrorRecord("NotFoundError", Lit("Resource not found"), details,
                Lit("Verify the resource ID or path is correct."))
       ELSE IF status_code = 422
       THEN ErrorRecord("ValidationError", Lit("Invalid request parameters"), details,
                Lit("Check the request parameters and try again."))
       ELSE IF status_code = 429
       THEN ErrorRecord("RateLimitError", Lit("Rate limit exceeded"), details,
                Lit("Wait before making more requests. Check rate limit headers."))
       ELSE IF 500 <= status_code /\ status_code < 600
       THEN ErrorRecord("ServerError",
                FStr("GitLab server error ({status_code})", IntToStr(status_code)), details,
                Lit("The GitLab server encountered an error. Try again later or contact your GitLab administrator."))
       ELSE ErrorRecord("HTTPError",
                FStr("HTTP error {status_code}", IntToStr(status_code)), details,
                Lit("Check the GitLab API documentation for this endpoint."))

\* format_connection_error
format_connection_error(error) ==
    ErrorRecord("ConnectionError", Lit("Failed to connect to GitLab"), StrOfExc(error),
        Lit("Check your network connection and GITLAB_URL setting. Verify the GitLab instance is accessible."))

\* format_timeout_error
format_timeout_error(error) ==
    ErrorRecord("TimeoutError", Lit("Request timeout"), StrOfExc(error),
        Lit("The GitLab instance is slow or unreachable. Try again later or increase the timeout."))

\* format_validation_error
format_validation_error(error) ==
    ErrorRecord("ValidationError", Lit("Invalid input"), StrOfExc(error),
        Lit("Check the input parameters and try again."))

\* the catch-all branch of the wrapper
format_unexpected_error(error) ==
    ErrorRecord("UnexpectedError", Lit("An unexpected error occurred"), StrOfExc(error),
        Lit("Please report this error with the details above."))

\* the wrapper without its last except clause
handle_gitlab_errors_no_catch_all(outcome) ==
    IF Returned(outcome) THEN outcome
    ELSE LET e == outcome.exc
         IN IF IsInstance(e, "HTTPStatusError") THEN Return(format_http_error(e))
            ELSE IF IsInstance(e, "ConnectError") THEN Return(format_connection_error(e))
            ELSE IF IsInstance(e, "TimeoutException") THEN Return(format_timeout_error(e))
            ELSE IF IsInstance(e, "ValueError") THEN Return(format_validation_error(e))
            ELSE outcome

\* handle_gitlab_errors.wrapper applied to the outcome of the tool body: a
\* returned value passes through, a raised exception is matched against the
\* except clauses in their order
handle_gitlab_errors(outcome) ==
    IF Returned(outcome) THEN outcome
    ELSE LET e == outcome.exc
         IN IF IsInstance(e, "HTTPStatusError") THEN Return(format_http_error(e))
            ELSE IF IsInstance(e, "ConnectError") THEN Return(format_connection_error(e))
            ELSE IF IsInstance(e, "TimeoutException") THEN Return(format_timeout_error(e))
            ELSE IF IsInstance(e, "ValueError") THEN Return(format_validation_error(e))
            ELSE IF IsInstance(e, "Exception") THEN Return(format_unexpected_error(e))
            ELSE outcome

----------------------------------------------------------------------------
(* Result shaper *)

k_all == <<"a", "l", "l">>
k_author == <<"a", "u", "t", "h", "o", "r">>
k_id == <<"i", "d">>
k_name == <<"n", "a", "m", "e">>

\* DEFAULT_FIELDS: resource type -> the field names kept by default
DEFAULT_FIELDS ==
    LET k_author_name == <<"a", "u", "t", "h", "o", "r", "_", "n", "a", "m", "e">>
        k_avatar_url == <<"a", "v", "a", "t", "a", "r", "_", "u", "r", "l">>
        k_color == <<"c", "o", "l", "o", "r">>
        k_commit == <<"c", "o", "m", "m", "i", "t">>
        k_created_at == <<"c", "r", "e", "a", "t", "e", "d", "_", "a", "t">>
        k_description == <<"d", "e", "s", "c", "r", "i", "p", "t", "i", "o", "n">>
        k_due_date == <<"d", "u", "e", "_", "d", "a", "t", "e">>
        k_iid == <<"i", "i", "d">>
        k_path == <<"p", "a", "t", "h">>
        k_protected == <<"p", "r", "o", "t", "e", "c", "t", "e", "d">>
        k_ref == <<"r", "e", "f">>
        k_short_id == <<"s", "h", "o", "r", "t", "_", "i", "d">>
        k_source_branch == <<"s", "o", "u", "r", "c", "e", "_", "b", "r", "a", "n", "c", "h">>
        k_stage == <<"s", "t", "a", "g", "e">>
        k_state == <<"s", "t", "a", "t", "e">>
        k_status == <<"s", "t", "a", "t", "u", "s">>
        k_target_branch == <<"t", "a", "r", "g", "e", "t", "_", "b", "r", "a", "n", "c", "h">>
        k_title == <<"t", "i", "t", "l", "e">>
        k_username == <<"u", "s", "e", "r", "n", "a", "m", "e">>
        k_visibility == <<"v", "i", "s", "i", "b", "i", "l", "i", "t", "y">>
        k_web_url == <<"w", "e", "b", "_", "u", "r", "l">>
    IN
    [project |-> <<k_id, k_name, k_path, k_description, k_web_url, k_visibility>>,
     issue |-> <<k_id, k_iid, k_title, k_state, k_author, k_created_at, k_web_url>>,
     merge_request |-> <<k_id, k_iid, k_title, k_state, k_source_branch, k_target_branch, k_author, k_web_url>>,
     commit |-> <<k_id, k_short_id, k_title, k_author_name, k_created_at, k_web_url>>,
     branch |-> <<k_name, k_commit, k_protected, k_web_url>>,
     pipeline |-> <<k_id, k_status, k_ref, k_created_at, k_web_url>>,
     job |-> <<k_id, k_name, k_status, k_stage, k_created_at, k_web_url>>,
     user |-> <<k_id, k_username, k_name, k_avatar_url>>,
     group |-> <<k_id, k_name, k_path, k_description, k_web_url>>,
     label |-> <<k_id, k_name, k_color, k_description>>,
     milestone |-> <<k_id, k_iid, k_title, k_state, k_due_date, k_web_url>>]

\* set(fields)
SetOf(seq) == {seq[i] : i \in 1..Len(seq)}

\* filter_fields.filter_object: a dict keeps exactly its keys that are in
\* field_set, with their values; anything that is not a dict is returned as is
filter_object(obj, field_set) ==
    IF obj.t # "dict" THEN obj
    ELSE PyDict([k \in (DOMAIN obj.v) \cap field_set |-> obj.v[k]])

\* The absent resource_type argument
NoResourceType == "None"

\* filter_fields taking an empty include_fields string for an absent one
filter_fields_empty_is_absent(data, include_fields, resource_type) ==
    IF include_fields = PyStr(k_all) THEN data
    ELSE LET included ==
                 IF include_fields.t = "str" /\ include_fields.v = <<>>
                 THEN PyNone
                 ELSE IF include_fields.t = "str"
                 THEN LET pieces == Split(include_fields.v, ",")
                      IN PyList([i \in 1..Len(pieces) |-> Strip(pieces[i])])
                 ELSE include_fields
         IN IF included.t = "NoneType"
               /\ ~(resource_type \notin {NoResourceType, ""}
                    /\ resource_type \in DOMAIN default_fields)
            THEN data
            ELSE LET fields == IF included.t # "NoneType" THEN included.v
                               ELSE default_fields[resource_type]
                     field_set == SetOf(fields)
                 IN IF data.t = "list"
                    THEN PyList([i \in 1..Len(data.v) |->
                                   filter_object(data.v[i], field_set)])
                    ELSE filter_object(data, field_set)

\* filter_fields leaving out the records that keep no field
filter_fields_drops_empty(data, include_fields, resource_type) ==
    IF include_fields = PyStr(k_all) THEN data
    ELSE LET included ==
                 IF include_fields.t = "str"
                 THEN LET pieces == Split(include_fields.v, ",")
                      IN PyList([i \in 1..Len(pieces) |-> Strip(pieces[i])])
                 ELSE include_fields
         IN IF included.t = "NoneType"
               /\ ~(resource_type \notin {NoResourceType, ""}
                    /\ resource_type \in DOMAIN default_fields)
            THEN data
            ELSE LET fields == IF included.t # "NoneType" THEN included.v
                               ELSE default_fields[resource_type]
                     field_set == SetOf(fields)
                 IN IF data.t = "list"
                    THEN LET kept(obj) == obj # PyDict(EmptyMap)
                         IN PyList(SelectSeq([i \in 1..Len(data.v) |->
                                                 filter_object(data.v[i], field_set)],
                                             kept))
                    ELSE filter_object(data, field_set)

\* filter_fields passing over the first element of a list
filter_fields_skip_first(data, include_fields, resource_type) ==
    IF include_fields = PyStr(k_all) THEN data
    ELSE LET included ==
                 IF include_fields.t = "str"
                 THEN LET pieces == Split(include_fields.v, ",")
                      IN PyList([i \in 1..Len(pieces) |-> Strip(pieces[i])])
                 ELSE include_fields
         IN IF included.t = "NoneType"
               /\ ~(resource_type \notin {NoResourceType, ""}
                    /\ resource_type \in DOMAIN default_fields)
            THEN data
            ELSE LET fields == IF included.t # "NoneType" THEN included.v
                               ELSE default_fields[resource_type]
                     field_set == SetOf(fields)
                 IN IF data.t = "list"
                    THEN PyList([i \in 1..(Len(data.v) - 1) |->
                                   filter_object(data.v[i + 1], field_set)])
                    ELSE filter_object(data, field_set)

\* filter_fields with the pieces of a comma-joined string left untrimmed
filter_fields_no_strip(data, include_fields, resource_type) ==
    IF include_fields = PyStr(k_all) THEN data
    ELSE LET included ==
                 IF include_fields.t = "str"
                 THEN PyList(Split(include_fields.v, ","))
                 ELSE include_fields
         IN IF included.t = "NoneType"
               /\ ~(resource_type \notin {NoResourceType, ""}
                    /\ resource_type \in DOMAIN default_fields)
            THEN data
            ELSE LET fields == IF included.t # "NoneType" THEN included.v
                               ELSE default_fields[resource_type]
                     field_set == SetOf(fields)
                 IN IF data.t = "list"
                    THEN PyList([i \in 1..Len(data.v) |->
                                   filter_object(data.v[i], field_set)])
                    ELSE filter_object(data, field_set)

\* filter_fields(data, include_fields, resource_type).  include_fields is
\* None, a str (split at commas, pieces stripped) or a list of str.
filter_fields(data, include_fields, resource_type) ==
    IF include_fields = PyStr(k_all) THEN data
    ELSE LET included ==
                 IF include_fields.t = "str"
                 THEN LET pieces == Split(include_fields.v, ",")
                      IN PyList([i \in 1..Len(pieces) |-> Strip(pieces[i])])
                 ELSE include_fields
         IN IF included.t = "NoneType"
               /\ ~(resource_type \notin {NoResourceType, ""}
                    /\ resource_type \in DOMAIN default_fields)
            THEN data
            ELSE LET fields == IF included.t # "NoneType" THEN included.v
                               ELSE default_fields[resource_type]
                     field_set == SetOf(fields)
                 IN IF data.t = "list"
                    THEN PyList([i \in 1..Len(data.v) |->
                                   filter_object(data.v[i], field_set)])
                    ELSE filter_object(data, field_set)

\* len(x); raises TypeError for a value without a length
PyLen(x) ==
    CASE x.t \in {"list", "str"} -> Return(Len(x.v))
      [] x.t = "dict" -> Return(Cardinality(DOMAIN x.v))
      [] OTHER -> Raise([cls |-> "TypeError",
                         msg |-> Msg("", "object has no len()", x.t, <<>>)])

\* paginate_response deciding has_next from total when it is supplied
paginate_response_by_total(items, page, per_page, total) ==
    LET n == PyLen(items)
    IN IF Raised(n) THEN n
       ELSE LET has_next == IF total.t # "NoneType"
                            THEN IntValue(page) * IntValue(per_page) < IntValue(total)
                            ELSE n.value = IntValue(per_page)
                response == [items |-> items,
                             page |-> page,
                             per_page |-> per_page,
                             has_next |-> has_next,
                             next_page |-> IF has_next THEN PyInt(IntValue(page) + 1)
                                           ELSE PyNone]
            IN Return(IF total.t # "NoneType"
                      THEN [items |-> response.items, page |-> response.page,
                            per_page |-> response.per_page,
                            has_next |-> response.has_next,
                            next_page |-> response.next_page, total |-> total]
                      ELSE response)

\* paginate_response(items, page, per_page, total); total is PyNone when it
\* is not supplied.  The record has a total key only when total is not None.
paginate_response(items, page, per_page, total) ==
    LET n == PyLen(items)
    IN IF Raised(n) THEN n
       ELSE LET has_next == (n.value = IntValue(per_page))
                response == [items |-> items,
                             page |-> page,
                             per_page |-> per_page,
                             has_next |-> has_next,
                             next_page |-> IF has_next THEN PyInt(IntValue(page) + 1)
                                           ELSE PyNone]
            IN Return(IF total.t # "NoneType"
                      THEN [items |-> response.items, page |-> response.page,
                            per_page |-> response.per_page,
                            has_next |-> response.has_next,
                            next_page |-> response.next_page, total |-> total]
                      ELSE response)

----------------------------------------------------------------------------
(* Tool layer.  Every tool is the same composition: its checks in their
   fixed order, one request, the shaping of the decoded response.  A tool is
   described by the checks it makes (in source order), its HTTP method, the
   way it shapes the response, the resource type it passes to filter_fields,
   the endpoint it formats (path), the map it hands to make_request (into:
   params, json or none) with the entries it puts there (fields), its
   parameters whose default is None (optional) and the parameters it sends
   without a check (unchecked). *)

\* one check of a tool: the validator c applied to the argument a; n is the
\* parameter name handed to the validator (or the second argument of
\* validate_pagination, or the name of the enumeration)
Check(c, a, n) == [c |-> c, a |-> a, n |-> n]

\* an element of an endpoint f-string: a literal segment, an interpolated
\* argument, an argument passed through encode_branch_name, an argument
\* passed through urllib.parse.quote(..., safe=''); the elements are
\* separated by "/"
Seg(s) == [k |-> "seg", s |-> s]
Var(a) == [k |-> "var", a |-> a]
Enc(a) == [k |-> "enc", a |-> a]
Quoted(a) == [k |-> "quote", a |-> a]

\* an entry of the params or json map: its key, the argument it takes its
\* value from, the test it is put under (always, truthy: `if x:`, not_none:
\* `if x is not None:`) and how the value is made (value: the argument
\* itself; close, reopen: that literal; items: the list of the
\* {key, value} pairs of a dict)
Field(key, arg, when, how) == [key |-> key, arg |-> arg, when |-> when, how |-> how]

s_opened == <<"o", "p", "e", "n", "e", "d">>
s_closed == <<"c", "l", "o", "s", "e", "d">>
s_merged == <<"m", "e", "r", "g", "e", "d">>
s_active == <<"a", "c", "t", "i", "v", "e">>
s_reopen == <<"r", "e", "o", "p", "e", "n">>
s_close == <<"c", "l", "o", "s", "e">>
s_running == <<"r", "u", "n", "n", "i", "n", "g">>
s_pending == <<"p", "e", "n", "d", "i", "n", "g">>
s_success == <<"s", "u", "c", "c", "e", "s", "s">>
s_failed == <<"f", "a", "i", "l", "e", "d">>
s_canceled == <<"c", "a", "n", "c", "e", "l", "e", "d">>
s_skipped == <<"s", "k", "i", "p", "p", "e", "d">>
s_created == <<"c", "r", "e", "a", "t", "e", "d">>
s_manual == <<"m", "a", "n", "u", "a", "l">>
s_text == <<"t", "e", "x", "t">>
s_base64 == <<"b", "a", "s", "e", "6", "4">>

\* the tuples of the `x not in (...)` tests
EnumAllowed ==
    [mr_state |-> {PyStr(s_opened), PyStr(s_closed), PyStr(s_merged), PyStr(k_all)},
     state_event |-> {PyStr(s_close), PyStr(s_reopen)},
     pipeline_status |-> {PyStr(s_running), PyStr(s_pending), PyStr(s_success),
                          PyStr(s_failed), PyStr(s_canceled), PyStr(s_skipped),
                          PyStr(s_created), PyStr(s_manual)},
     job_scope |-> {PyStr(s_created), PyStr(s_pending), PyStr(s_running),
                    PyStr(s_failed), PyStr(s_success), PyStr(s_canceled),
                    PyStr(s_skipped), PyStr(s_manual)},
     milestone_state |-> {PyStr(s_active), PyStr(s_closed)},
     encoding |-> {PyStr(s_text), PyStr(s_base64)}]

\* the texts of their error messages
EnumText ==
    [mr_state |-> " must be one of: opened, closed, merged, all. Got: ",
     state_event |-> " must be 'close' or 'reopen', got: ",
     pipeline_status |-> " must be one of: running, pending, success, failed, canceled, skipped, created, manual. Got: ",
     job_scope |-> " must be one of: created, pending, running, failed, success, canceled, skipped, manual. Got: ",
     milestone_state |-> " must be 'active' or 'closed', got: ",
     encoding |-> " must be 'text' or 'base64', got: "]

list_projects ==
    [checks |-> <<Check("pagination", "page", "per_page")>>,
     method |-> "GET", shape |-> "list", resource_type |-> "project",
     path |-> <<Seg("projects")>>,
     into |-> "params",
     fields |-> <<Field("per_page", "per_page", "always", "value"),
                 Field("page", "page", "always", "value"),
                 Field("search", "search", "truthy", "value")>>,
     optional |-> {"search"},
     unchecked |-> {"search"}]

get_project ==
    [checks |-> <<Check("project_id", "project_id", "")>>,
     method |-> "GET", shape |-> "filter", resource_type |-> "project",
     path |-> <<Seg("projects"), Var("project_id")>>,
     into |-> "none",
     fields |-> <<>>,
     optional |-> {},
     unchecked |-> {}]

create_project ==
    [checks |-> <<>>,
     method |-> "POST", shape |-> "filter", resource_type |-> "project",
     path |-> <<Seg("projects")>>,
     into |-> "json",
     fields |-> <<Field("name", "name", "always", "value"),
                 Field("visibility", "visibility", "always", "value"),
                 Field("initialize_with_readme", "initialize_with_readme", "always", "value"),
                 Field("description", "description", "truthy", "value")>>,
     optional |-> {"description"},
     unchecked |-> {"description", "initialize_with_readme", "name", "visibility"}]

update_project ==
    [checks |-> <<Check("project_id", "project_id", "")>>,
     method |-> "PUT", shape |-> "filter", resource_type |-> "project",
     path |-> <<Seg("projects"), Var("project_id")>>,
     into |-> "json",
     fields |-> <<Field("name", "name", "not_none", "value"),
                 Field("description", "description", "not_none", "value"),
                 Field("visibility", "visibility", "not_none", "value"),
                 Field("default_branch", "default_branch", "not_none", "value")>>,
     optional |-> {"default_branch", "description", "name", "visibility"},
     unchecked |-> {"default_branch", "description", "name", "visibility"}]

delete_project ==
    [checks |-> <<Check("project_id", "project_id", "")>>,
     method |-> "DELETE", shape |-> "delete", resource_type |-> "None",
     path |-> <<Seg("projects"), Var("project_id")>>,
     into |-> "none",
     fields |-> <<>>,
     optional |-> {},
     unchecked |-> {}]

list_issues ==
    [checks |-> <<Check("project_id", "project_id", ""),
                Check("pagination", "page", "per_page")>>,
     method |-> "GET", shape |-> "list", resource_type |-> "issue",
     path |-> <<Seg("projects"), Var("project_id"), Seg("issues")>>,
     into |-> "params",
     fields |-> <<Field("per_page", "per_page", "always", "value"),
                 Field("page", "page", "always", "value"),
                 Field("state", "state", "truthy", "value"),
                 Field("labels", "labels", "truthy", "value")>>,
     optional |-> {"labels", "state"},
     unchecked |-> {"labels", "state"}]

get_issue ==
    [checks |-> <<Check("project_id", "project_id", ""),
                Check("issue_iid", "issue_iid", "")>>,
     method |-> "GET", shape |-> "filter", resource_type |-> "issue",
     path |-> <<Seg("projects"), Var("project_id"), Seg("issues"),
               Var("issue_iid")>>,
     into |-> "none",
     fields |-> <<>>,
     optional |-> {},
     unchecked |-> {}]

create_issue ==
    [checks |-> <<Check("project_id", "project_id", "")>>,
     method |-> "POST", shape |-> "filter", resource_type |-> "issue",
     path |-> <<Seg("projects"), Var("project_id"), Seg("issues")>>,
     into |-> "json",
     fields |-> <<Field("title", "title", "always", "value"),
                 Field("description", "description", "truthy", "value"),
                 Field("labels", "labels", "truthy", "value"),
                 Field("assignee_ids", "assignee_ids", "truthy", "value")>>,
     optional |-> {"assignee_ids", "description", "labels"},
     unchecked |-> {"assignee_ids", "description", "labels", "title"}]

update_issue ==
    [checks |-> <<Check("project_id", "project_id", ""),
                Check("issue_iid", "issue_iid", "")>>,
     method |-> "PUT", shape |-> "filter", resource_type |-> "issue",
     path |-> <<Seg("projects"), Var("project_id"), Seg("issues"),
               Var("issue_iid")>>,
     into |-> "json",
     fields |-> <<Field("title", "title", "not_none", "value"),
                 Field("description", "description", "not_none", "value"),
                 Field("labels", "labels", "not_none", "value"),
                 Field("assignee_ids", "assignee_ids", "not_none", "value"),
                 Field("state_event", "state_event", "not_none", "value")>>,
     optional |-> {"assignee_ids", "description", "labels", "state_event", "title"},
     unchecked |-> {"assignee_ids", "description", "labels", "state_event", "title"}]

close_issue ==
    [checks |-> <<Check("project_id", "project_id", ""),
                Check("issue_iid", "issue_iid", "")>>,
     method |-> "PUT", shape |-> "filter", resource_type |-> "issue",
     path |-> <<Seg("projects"), Var("project_id"), Seg("issues"),
               Var("issue_iid")>>,
     into |-> "json",
     fields |-> <<Field("state_event", "", "always", "close")>>,
     optional |-> {},
     unchecked |-> {}]

reopen_issue ==
    [checks |-> <<Check("project_id", "project_id", ""),
                Check("issue_iid", "issue_iid", "")>>,
     method |-> "PUT", shape |-> "filter", resource_type |-> "issue",
     path |-> <<Seg("projects"), Var("project_id"), Seg("issues"),
               Var("issue_iid")>>,
     into |-> "json",
     fields |-> <<Field("state_event", "", "always", "reopen")>>,
     optional |-> {},
     unchecked |-> {}]

add_issue_comment ==
    [checks |-> <<Check("project_id", "project_id", ""),
                Check("issue_iid", "issue_iid", "")>>,
     method |-> "POST", shape |-> "raw", resource_type |-> "None",
     path |-> <<Seg("projects"), Var("project_id"), Seg("issues"),
               Var("issue_iid"), Seg("notes")>>,
     into |-> "json",
     fields |-> <<Field("body", "body", "always", "value")>>,
     optional |-> {},
     unchecked |-> {"body"}]

list_issue_comments ==
    [checks |-> <<Check("project_id", "project_id", ""),
                Check("issue_iid", "issue_iid", ""),
                Check("pagination", "page", "per_page")>>,
     method |-> "GET", shape |-> "list_raw", resource_type |-> "None",
     path |-> <<Seg("projects"), Var("project_id"), Seg("issues"),
               Var("issue_iid"), Seg("notes")>>,
     into |-> "params",
     fields |-> <<Field("per_page", "per_page", "always", "value"),
                 Field("page", "page", "always", "value")>>,
     optional |-> {},
     unchecked |-> {}]

list_merge_requests ==
    [checks |-> <<Check("project_id", "project_id", ""),
                Check("pagination", "page", "per_page"),
                Check("enum", "state", "mr_state")>>,
     method |-> "GET", shape |-> "list", resource_type |-> "merge_request",
     path |-> <<Seg("projects"), Var("project_id"), Seg("merge_requests")>>,
     into |-> "params",
     fields |-> <<Field("per_page", "per_page", "always", "value"),
                 Field("page", "page", "always", "value"),
                 Field("state", "state", "truthy", "value")>>,
     optional |-> {"state"},
     unchecked |-> {}]

get_merge_request ==
    [checks |-> <<Check("project_id", "project_id", ""),
                Check("iid", "mr_iid", "mr_iid")>>,
     method |-> "GET", shape |-> "filter", resource_type |-> "merge_request",
     path |-> <<Seg("projects"), Var("project_id"), Seg("merge_requests"),
               Var("mr_iid")>>,
     into |-> "none",
     fields |-> <<>>,
     optional |-> {},
     unchecked |-> {}]

create_merge_request ==
    [checks |-> <<Check("project_id", "project_id", ""),
                Check("branch", "source_branch", ""),
                Check("branch", "target_branch", "")>>,
     method |-> "POST", shape |-> "filter", resource_type |-> "merge_request",
     path |-> <<Seg("projects"), Var("project_id"), Seg("merge_requests")>>,
     into |-> "json",
     fields |-> <<Field("source_branch", "source_branch", "always", "value"),
                 Field("target_branch", "target_branch", "always", "value"),
                 Field("title", "title", "always", "value"),
                 Field("description", "description", "truthy", "value")>>,
     optional |-> {"description"},
     unchecked |-> {"description", "title"}]

update_merge_request ==
    [checks |-> <<Check("project_id", "project_id", ""),
                Check("iid", "mr_iid", "mr_iid"),
                Check("enum", "state_event", "state_event"),
                Check("opt_branch", "target_branch", "")>>,
     method |-> "PUT", shape |-> "filter", resource_type |-> "merge_request",
     path |-> <<Seg("projects"), Var("project_id"), Seg("merge_requests"),
               Var("mr_iid")>>,
     into |-> "json",
     fields |-> <<Field("title", "title", "not_none", "value"),
                 Field("description", "description", "not_none", "value"),
                 Field("target_branch", "target_branch", "not_none", "value"),
                 Field("state_event", "state_event", "not_none", "value")>>,
     optional |-> {"description", "state_event", "target_branch", "title"},
     unchecked |-> {"description", "title"}]

merge_merge_request ==
    [checks |-> <<Check("project_id", "project_id", ""),
                Check("iid", "mr_iid", "mr_iid")>>,
     method |-> "PUT", shape |-> "raw", resource_type |-> "None",
     path |-> <<Seg("projects"), Var("project_id"), Seg("merge_requests"),
               Var("mr_iid"), Seg("merge")>>,
     into |-> "json",
     fields |-> <<
                 Field("merge_commit_message", "merge_commit_message", "truthy", "value")>>,
     optional |-> {"merge_commit_message"},
     unchecked |-> {"merge_commit_message"}]

approve_merge_request ==
    [checks |-> <<Check("project_id", "project_id", ""),
                Check("iid", "mr_iid", "mr_iid")>>,
     method |-> "POST", shape |-> "raw", resource_type |-> "None",
     path |-> <<Seg("projects"), Var("project_id"), Seg("merge_requests"),
               Var("mr_iid"), Seg("approve")>>,
     into |-> "none",
     fields |-> <<>>,
     optional |-> {},
     unchecked |-> {}]

get_merge_request_changes ==
    [checks |-> <<Check("project_id", "project_id", ""),
                Check("iid", "mr_iid", "mr_iid")>>,
     method |-> "GET", shape |-> "raw", resource_type |-> "None",
     path |-> <<Seg("projects"), Var("project_id"), Seg("merge_requests"),
               Var("mr_iid"), Seg("changes")>>,
     into |-> "none",
     fields |-> <<>>,
     optional |-> {},
     unchecked |-> {}]

add_merge_request_comment ==
    [checks |-> <<Check("project_id", "project_id", ""),
                Check("iid", "mr_iid", "mr_iid")>>,
     method |-> "POST", shape |-> "raw", resource_type |-> "None",
     path |-> <<Seg("projects"), Var("project_id"), Seg("merge_requests"),
               Var("mr_iid"), Seg("notes")>>,
     into |-> "json",
     fields |-> <<Field("body", "body", "always", "value")>>,
     optional |-> {},
     unchecked |-> {"body"}]

list_merge_request_comments ==
    [checks |-> <<Check("project_id", "project_id", ""),
                Check("iid", "mr_iid", "mr_iid"),
                Check("pagination", "page", "per_page")>>,
     method |-> "GET", shape |-> "list_raw", resource_type |-> "None",
     path |-> <<Seg("projects"), Var("project_id"), Seg("merge_requests"),
               Var("mr_iid"), Seg("notes")>>,
     into |-> "params",
     fields |-> <<Field("per_page", "per_page", "always", "value"),
                 Field("page", "page", "always", "value")>>,
     optional |-> {},
     unchecked |-> {}]

list_branches ==
    [checks |-> <<Check("project_id", "project_id", ""),
                Check("pagination", "page", "per_page")>>,
     method |-> "GET", shape |-> "list", resource_type |-> "branch",
     path |-> <<Seg("projects"), Var("project_id"), Seg("repository"),
               Seg("branches")>>,
     into |-> "params",
     fields |-> <<Field("per_page", "per_page", "always", "value"),
                 Field("page", "page", "always", "value"),
                 Field("search", "search", "truthy", "value")>>,
     optional |-> {"search"},
     unchecked |-> {"search"}]

get_branch ==
    [checks |-> <<Check("project_id", "project_id", ""),
                Check("branch", "branch", "")>>,
     method |-> "GET", shape |-> "filter", resource_type |-> "branch",
     path |-> <<Seg("projects"), Var("project_id"), Seg("repository"),
               Seg("branches"), Enc("branch")>>,
     into |-> "none",
     fields |-> <<>>,
     optional |-> {},
     unchecked |-> {}]

create_branch ==
    [checks |-> <<Check("project_id", "project_id", ""),
                Check("branch", "branch", ""), Check("branch", "ref", "")>>,
     method |-> "POST", shape |-> "filter", resource_type |-> "branch",
     path |-> <<Seg("projects"), Var("project_id"), Seg("repository"),
               Seg("branches")>>,
     into |-> "json",
     fields |-> <<Field("branch", "branch", "always", "value"),
                 Field("ref", "ref", "always", "value")>>,
     optional |-> {},
     unchecked |-> {}]

delete_branch ==
    [checks |-> <<Check("project_id", "project_id", ""),
                Check("branch", "branch", "")>>,
     method |-> "DELETE", shape |-> "delete", resource_type |-> "None",
     path |-> <<Seg("projects"), Var("project_id"), Seg("repository"),
               Seg("branches"), Enc("branch")>>,
     into |-> "none",
     fields |-> <<>>,
     optional |-> {},
     unchecked |-> {}]

get_file ==
    [checks |-> <<Check("project_id", "project_id", ""),
                Check("inline_string", "file_path", "file_path"),
                Check("inline_string", "ref", "ref")>>,
     method |-> "GET", shape |-> "filter_if", resource_type |-> "None",
     path |-> <<Seg("projects"), Var("project_id"), Seg("repository"),
               Seg("files"), Quoted("file_path")>>,
     into |-> "params",
     fields |-> <<Field("ref", "ref", "always", "value")>>,
     optional |-> {},
     unchecked |-> {}]

create_file ==
    [checks |-> <<Check("project_id", "project_id", ""),
                Check("inline_string", "file_path", "file_path"),
                Check("branch", "branch", ""),
                Check("inline_string", "commit_message", "commit_message"),
                Check("member", "encoding", "encoding")>>,
     method |-> "POST", shape |-> "filter_if", resource_type |-> "None",
     path |-> <<Seg("projects"), Var("project_id"), Seg("repository"),
               Seg("files"), Quoted("file_path")>>,
     into |-> "json",
     fields |-> <<Field("branch", "branch", "always", "value"),
                 Field("content", "content", "always", "value"),
                 Field("commit_message", "commit_message", "always", "value"),
                 Field("encoding", "encoding", "always", "value")>>,
     optional |-> {},
     unchecked |-> {"content"}]

update_file ==
    [checks |-> <<Check("project_id", "project_id", ""),
                Check("inline_string", "file_path", "file_path"),
                Check("branch", "branch", ""),
                Check("inline_string", "commit_message", "commit_message"),
                Check("member", "encoding", "encoding")>>,
     method |-> "PUT", shape |-> "filter_if", resource_type |-> "None",
     path |-> <<Seg("projects"), Var("project_id"), Seg("repository"),
               Seg("files"), Quoted("file_path")>>,
     into |-> "json",
     fields |-> <<Field("branch", "branch", "always", "value"),
                 Field("content", "content", "always", "value"),
                 Field("commit_message", "commit_message", "always", "value"),
                 Field("encoding", "encoding", "always", "value")>>,
     optional |-> {},
     unchecked |-> {"content"}]

delete_file ==
    [checks |-> <<Check("project_id", "project_id", ""),
                Check("inline_string", "file_path", "file_path"),
                Check("branch", "branch", ""),
                Check("inline_string", "commit_message", "commit_message")>>,
     method |-> "DELETE", shape |-> "delete", resource_type |-> "None",
     path |-> <<Seg("projects"), Var("project_id"), Seg("repository"),
               Seg("files"), Quoted("file_path")>>,
     into |-> "json",
     fields |-> <<Field("branch", "branch", "always", "value"),
                 Field("commit_message", "commit_message", "always", "value")>>,
     optional |-> {},
     unchecked |-> {}]

list_commits ==
    [checks |-> <<Check("project_id", "project_id", ""),
                Check("pagination", "page", "per_page")>>,
     method |-> "GET", shape |-> "list", resource_type |-> "commit",
     path |-> <<Seg("projects"), Var("project_id"), Seg("repository"),
               Seg("commits")>>,
     into |-> "params",
     fields |-> <<Field("per_page", "per_page", "always", "value"),
                 Field("page", "page", "always", "value"),
                 Field("ref_name", "ref_name", "truthy", "value"),
                 Field("since", "since", "truthy", "value"),
                 Field("until", "until", "truthy", "value")>>,
     optional |-> {"ref_name", "since", "until"},
     unchecked |-> {"ref_name", "since", "until"}]

\* get_commit with the sha percent-encoded like a file path
get_commit_encoded ==
    [checks |-> <<Check("project_id", "project_id", ""),
                Check("inline_string", "sha", "sha")>>,
     method |-> "GET", shape |-> "filter", resource_type |-> "commit",
     path |-> <<Seg("projects"), Var("project_id"), Seg("repository"),
               Seg("commits"), Quoted("sha")>>,
     into |-> "none",
     fields |-> <<>>,
     optional |-> {},
     unchecked |-> {}]

get_commit ==
    [checks |-> <<Check("project_id", "project_id", ""),
                Check("inline_string", "sha", "sha")>>,
     method |-> "GET", shape |-> "filter", resource_type |-> "commit",
     path |-> <<Seg("projects"), Var("project_id"), Seg("repository"),
               Seg("commits"), Var("sha")>>,
     into |-> "none",
     fields |-> <<>>,
     optional |-> {},
     unchecked |-> {}]

list_tags ==
    [checks |-> <<Check("project_id", "project_id", ""),
                Check("pagination", "page", "per_page")>>,
     method |-> "GET", shape |-> "list_if", resource_type |-> "None",
     path |-> <<Seg("projects"), Var("project_id"), Seg("repository"),
               Seg("tags")>>,
     into |-> "params",
     fields |-> <<Field("per_page", "per_page", "always", "value"),
                 Field("page", "page", "always", "value"),
                 Field("search", "search", "truthy", "value")>>,
     optional |-> {"search"},
     unchecked |-> {"search"}]

create_tag ==
    [checks |-> <<Check("project_id", "project_id", ""),
                Check("inline_string", "tag_name", "tag_name"),
                Check("inline_string", "ref", "ref")>>,
     method |-> "POST", shape |-> "filter_if", resource_type |-> "None",
     path |-> <<Seg("projects"), Var("project_id"), Seg("repository"),
               Seg("tags")>>,
     into |-> "json",
     fields |-> <<Field("tag_name", "tag_name", "always", "value"),
                 Field("ref", "ref", "always", "value"),
                 Field("message", "message", "truthy", "value")>>,
     optional |-> {"message"},
     unchecked |-> {"message"}]

list_pipelines ==
    [checks |-> <<Check("project_id", "project_id", ""),
                Check("pagination", "page", "per_page"),
                Check("enum", "status", "pipeline_status")>>,
     method |-> "GET", shape |-> "list", resource_type |-> "pipeline",
     path |-> <<Seg("projects"), Var("project_id"), Seg("pipelines")>>,
     into |-> "params",
     fields |-> <<Field("per_page", "per_page", "always", "value"),
                 Field("page", "page", "always", "value"),
                 Field("ref", "ref", "truthy", "value"),
                 Field("status", "status", "truthy", "value")>>,
     optional |-> {"ref", "status"},
     unchecked |-> {"ref"}]

get_pipeline ==
    [checks |-> <<Check("project_id", "project_id", ""),
                Check("iid", "pipeline_id", "pipeline_id")>>,
     method |-> "GET", shape |-> "filter", resource_type |-> "pipeline",
     path |-> <<Seg("projects"), Var("project_id"), Seg("pipelines"),
               Var("pipeline_id")>>,
     into |-> "none",
     fields |-> <<>>,
     optional |-> {},
     unchecked |-> {}]

create_pipeline ==
    [checks |-> <<Check("project_id", "project_id", ""),
                Check("inline_string", "ref", "ref")>>,
     method |-> "POST", shape |-> "filter", resource_type |-> "pipeline",
     path |-> <<Seg("projects"), Var("project_id"), Seg("pipeline")>>,
     into |-> "json",
     fields |-> <<Field("ref", "ref", "always", "value"),
                 Field("variables", "variables", "truthy", "items")>>,
     optional |-> {"variables"},
     unchecked |-> {"variables"}]

retry_pipeline ==
    [checks |-> <<Check("project_id", "project_id", ""),
                Check("iid", "pipeline_id", "pipeline_id")>>,
     method |-> "POST", shape |-> "filter", resource_type |-> "pipeline",
     path |-> <<Seg("projects"), Var("project_id"), Seg("pipelines"),
               Var("pipeline_id"), Seg("retry")>>,
     into |-> "none",
     fields |-> <<>>,
     optional |-> {},
     unchecked |-> {}]

cancel_pipeline ==
    [checks |-> <<Check("project_id", "project_id", ""),
                Check("iid", "pipeline_id", "pipeline_id")>>,
     method |-> "POST", shape |-> "filter", resource_type |-> "pipeline",
     path |-> <<Seg("projects"), Var("project_id"), Seg("pipelines"),
               Var("pipeline_id"), Seg("cancel")>>,
     into |-> "none",
     fields |-> <<>>,
     optional |-> {},
     unchecked |-> {}]

list_jobs ==
    [checks |-> <<Check("project_id", "project_id", ""),
                Check("iid", "pipeline_id", "pipeline_id"),
                Check("pagination", "page", "per_page"),
                Check("enum", "scope", "job_scope")>>,
     method |-> "GET", shape |-> "list", resource_type |-> "job",
     path |-> <<Seg("projects"), Var("project_id"), Seg("pipelines"),
               Var("pipeline_id"), Seg("jobs")>>,
     into |-> "params",
     fields |-> <<Field("per_page", "per_page", "always", "value"),
                 Field("page", "page", "always", "value"),
                 Field("scope", "scope", "truthy", "value")>>,
     optional |-> {"scope"},
     unchecked |-> {}]

get_job ==
    [checks |-> <<Check("project_id", "project_id", ""),
                Check("iid", "job_id", "job_id")>>,
     method |-> "GET", shape |-> "filter", resource_type |-> "job",
     path |-> <<Seg("projects"), Var("project_id"), Seg("jobs"),
               Var("job_id")>>,
     into |-> "none",
     fields |-> <<>>,
     optional |-> {},
     unchecked |-> {}]

retry_job ==
    [checks |-> <<Check("project_id", "project_id", ""),
                Check("iid", "job_id", "job_id")>>,
     method |-> "POST", shape |-> "filter", resource_type |-> "job",
     path |-> <<Seg("projects"), Var("project_id"), Seg("jobs"), Var("job_id"),
               Seg("retry")>>,
     into |-> "none",
     fields |-> <<>>,
     optional |-> {},
     unchecked |-> {}]

cancel_job ==
    [checks |-> <<Check("project_id", "project_id", ""),
                Check("iid", "job_id", "job_id")>>,
     method |-> "POST", shape |-> "filter", resource_type |-> "job",
     path |-> <<Seg("projects"), Var("project_id"), Seg("jobs"), Var("job_id"),
               Seg("cancel")>>,
     into |-> "none",
     fields |-> <<>>,
     optional |-> {},
     unchecked |-> {}]

get_job_log ==
    [checks |-> <<Check("project_id", "project_id", ""),
                Check("iid", "job_id", "job_id")>>,
     method |-> "GET", shape |-> "log", resource_type |-> "None",
     path |-> <<Seg("projects"), Var("project_id"), Seg("jobs"), Var("job_id"),
               Seg("trace")>>,
     into |-> "none",
     fields |-> <<>>,
     optional |-> {},
     unchecked |-> {}]

list_groups ==
    [checks |-> <<Check("pagination", "page", "per_page")>>,
     method |-> "GET", shape |-> "list", resource_type |-> "group",
     path |-> <<Seg("groups")>>,
     into |-> "params",
     fields |-> <<Field("per_page", "per_page", "always", "value"),
                 Field("page", "page", "always", "value"),
                 Field("search", "search", "truthy", "value")>>,
     optional |-> {"search"},
     unchecked |-> {"search"}]

get_group ==
    [checks |-> <<Check("group_id", "group_id", "")>>,
     method |-> "GET", shape |-> "filter", resource_type |-> "group",
     path |-> <<Seg("groups"), Var("group_id")>>,
     into |-> "none",
     fields |-> <<>>,
     optional |-> {},
     unchecked |-> {}]

create_group ==
    [checks |-> <<Check("nes", "name", "name"), Check("nes", "path", "path"),
                Check("visibility", "visibility", "")>>,
     method |-> "POST", shape |-> "filter", resource_type |-> "group",
     path |-> <<Seg("groups")>>,
     into |-> "json",
     fields |-> <<Field("name", "name", "always", "value"),
                 Field("path", "path", "always", "value"),
                 Field("visibility", "visibility", "always", "value"),
                 Field("description", "description", "truthy", "value")>>,
     optional |-> {"description"},
     unchecked |-> {"description"}]

update_group ==
    [checks |-> <<Check("group_id", "group_id", ""),
                Check("opt_nes", "name", "name"),
                Check("opt_nes", "path", "path"),
                Check("opt_visibility", "visibility", "")>>,
     method |-> "PUT", shape |-> "filter", resource_type |-> "group",
     path |-> <<Seg("groups"), Var("group_id")>>,
     into |-> "json",
     fields |-> <<Field("name", "name", "not_none", "value"),
                 Field("path", "path", "not_none", "value"),
                 Field("description", "description", "not_none", "value"),
                 Field("visibility", "visibility", "not_none", "value")>>,
     optional |-> {"description", "name", "path", "visibility"},
     unchecked |-> {"description"}]

delete_group ==
    [checks |-> <<Check("group_id", "group_id", "")>>,
     method |-> "DELETE", shape |-> "delete", resource_type |-> "None",
     path |-> <<Seg("groups"), Var("group_id")>>,
     into |-> "none",
     fields |-> <<>>,
     optional |-> {},
     unchecked |-> {}]

list_group_members ==
    [checks |-> <<Check("group_id", "group_id", ""),
                Check("pagination", "page", "per_page")>>,
     method |-> "GET", shape |-> "list", resource_type |-> "user",
     path |-> <<Seg("groups"), Var("group_id"), Seg("members")>>,
     into |-> "params",
     fields |-> <<Field("per_page", "per_page", "always", "value"),
                 Field("page", "page", "always", "value")>>,
     optional |-> {},
     unchecked |-> {}]

add_group_member ==
    [checks |-> <<Check("group_id", "group_id", ""),
                Check("user_id", "user_id", ""),
                Check("access_level", "access_level", "")>>,
     method |-> "POST", shape |-> "filter", resource_type |-> "user",
     path |-> <<Seg("groups"), Var("group_id"), Seg("members")>>,
     into |-> "json",
     fields |-> <<Field("user_id", "user_id", "always", "value"),
                 Field("access_level", "access_level", "always", "value")>>,
     optional |-> {},
     unchecked |-> {}]

get_current_user ==
    [checks |-> <<>>,
     method |-> "GET", shape |-> "filter", resource_type |-> "user",
     path |-> <<Seg("user")>>,
     into |-> "none",
     fields |-> <<>>,
     optional |-> {},
     unchecked |-> {}]

get_user ==
    [checks |-> <<Check("user_id", "user_id", "")>>,
     method |-> "GET", shape |-> "filter", resource_type |-> "user",
     path |-> <<Seg("users"), Var("user_id")>>,
     into |-> "none",
     fields |-> <<>>,
     optional |-> {},
     unchecked |-> {}]

list_users ==
    [checks |-> <<Check("pagination", "page", "per_page")>>,
     method |-> "GET", shape |-> "list", resource_type |-> "user",
     path |-> <<Seg("users")>>,
     into |-> "params",
     fields |-> <<Field("per_page", "per_page", "always", "value"),
                 Field("page", "page", "always", "value")>>,
     optional |-> {},
     unchecked |-> {}]

search_users ==
    [checks |-> <<Check("inline_string", "search", "search query"),
                Check("pagination", "page", "per_page")>>,
     method |-> "GET", shape |-> "list", resource_type |-> "user",
     path |-> <<Seg("users")>>,
     into |-> "params",
     fields |-> <<Field("search", "search", "always", "value"),
                 Field("per_page", "per_page", "always", "value"),
                 Field("page", "page", "always", "value")>>,
     optional |-> {},
     unchecked |-> {}]

list_labels ==
    [checks |-> <<Check("project_id", "project_id", ""),
                Check("pagination", "page", "per_page")>>,
     method |-> "GET", shape |-> "list", resource_type |-> "label",
     path |-> <<Seg("projects"), Var("project_id"), Seg("labels")>>,
     into |-> "params",
     fields |-> <<Field("per_page", "per_page", "always", "value"),
                 Field("page", "page", "always", "value"),
                 Field("search", "search", "truthy", "value")>>,
     optional |-> {"search"},
     unchecked |-> {"search"}]

create_label ==
    [checks |-> <<Check("project_id", "project_id", ""),
                Check("nes", "name", "name"), Check("nes", "color", "color")>>,
     method |-> "POST", shape |-> "filter", resource_type |-> "label",
     path |-> <<Seg("projects"), Var("project_id"), Seg("labels")>>,
     into |-> "json",
     fields |-> <<Field("name", "name", "always", "value"),
                 Field("color", "color", "always", "value"),
                 Field("description", "description", "truthy", "value")>>,
     optional |-> {"description"},
     unchecked |-> {"description"}]

update_label ==
    [checks |-> <<Check("project_id", "project_id", ""),
                Check("iid", "label_id", "label_id"),
                Check("opt_nes", "name", "name"),
                Check("opt_nes", "new_name", "new_name"),
                Check("opt_nes", "color", "color")>>,
     method |-> "PUT", shape |-> "filter", resource_type |-> "label",
     path |-> <<Seg("projects"), Var("project_id"), Seg("labels"),
               Var("label_id")>>,
     into |-> "json",
     fields |-> <<Field("name", "name", "not_none", "value"),
                 Field("new_name", "new_name", "not_none", "value"),
                 Field("color", "color", "not_none", "value"),
                 Field("description", "description", "not_none", "value")>>,
     optional |-> {"color", "description", "name", "new_name"},
     unchecked |-> {"description"}]

delete_label ==
    [checks |-> <<Check("project_id", "project_id", ""),
                Check("iid", "label_id", "label_id")>>,
     method |-> "DELETE", shape |-> "delete", resource_type |-> "None",
     path |-> <<Seg("projects"), Var("project_id"), Seg("labels"),
               Var("label_id")>>,
     into |-> "none",
     fields |-> <<>>,
     optional |-> {},
     unchecked |-> {}]

list_milestones ==
    [checks |-> <<Check("project_id", "project_id", ""),
                Check("pagination", "page", "per_page"),
                Check("enum", "state", "milestone_state")>>,
     method |-> "GET", shape |-> "list", resource_type |-> "milestone",
     path |-> <<Seg("projects"), Var("project_id"), Seg("milestones")>>,
     into |-> "params",
     fields |-> <<Field("per_page", "per_page", "always", "value"),
                 Field("page", "page", "always", "value"),
                 Field("state", "state", "truthy", "value"),
                 Field("search", "search", "truthy", "value")>>,
     optional |-> {"search", "state"},
     unchecked |-> {"search"}]

create_milestone ==
    [checks |-> <<Check("project_id", "project_id", ""),
                Check("nes", "title", "title")>>,
     method |-> "POST", shape |-> "filter", resource_type |-> "milestone",
     path |-> <<Seg("projects"), Var("project_id"), Seg("milestones")>>,
     into |-> "json",
     fields |-> <<Field("title", "title", "always", "value"),
                 Field("description", "description", "truthy", "value"),
                 Field("due_date", "due_date", "truthy", "value"),
                 Field("start_date", "start_date", "truthy", "value")>>,
     optional |-> {"description", "due_date", "start_date"},
     unchecked |-> {"description", "due_date", "start_date"}]

update_milestone ==
    [checks |-> <<Check("project_id", "project_id", ""),
                Check("iid", "milestone_id", "milestone_id"),
                Check("opt_nes", "title", "title")>>,
     method |-> "PUT", shape |-> "filter", resource_type |-> "milestone",
     path |-> <<Seg("projects"), Var("project_id"), Seg("milestones"),
               Var("milestone_id")>>,
     into |-> "json",
     fields |-> <<Field("title", "title", "not_none", "value"),
                 Field("description", "description", "not_none", "value"),
                 Field("due_date", "due_date", "not_none", "value"),
                 Field("start_date", "start_date", "not_none", "value")>>,
     optional |-> {"description", "due_date", "start_date", "title"},
     unchecked |-> {"description", "due_date", "start_date"}]

close_milestone ==
    [checks |-> <<Check("project_id", "project_id", ""),
                Check("iid", "milestone_id", "milestone_id")>>,
     method |-> "PUT", shape |-> "filter", resource_type |-> "milestone",
     path |-> <<Seg("projects"), Var("project_id"), Seg("milestones"),
               Var("milestone_id")>>,
     into |-> "json",
     fields |-> <<Field("state_event", "", "always", "close")>>,
     optional |-> {},
     unchecked |-> {}]

\* the registered tools, by name
Tools ==
    [list_projects |-> list_projects, get_project |-> get_project,
     create_project |-> create_project, update_project |-> update_project,
     delete_project |-> delete_project, list_issues |-> list_issues,
     get_issue |-> get_issue, create_issue |-> create_issue,
     update_issue |-> update_issue, close_issue |-> close_issue,
     reopen_issue |-> reopen_issue, add_issue_comment |-> add_issue_comment,
     list_issue_comments |-> list_issue_comments,
     list_merge_requests |-> list_merge_requests,
     get_merge_request |-> get_merge_request,
     create_merge_request |-> create_merge_request,
     update_merge_request |-> update_merge_request,
     merge_merge_request |-> merge_merge_request,
     approve_merge_request |-> approve_merge_request,
     get_merge_request_changes |-> get_merge_request_changes,
     add_merge_request_comment |-> add_merge_request_comment,
     list_merge_request_comments |-> list_merge_request_comments,
     list_branches |-> list_branches, get_branch |-> get_branch,
     create_branch |-> create_branch, delete_branch |-> delete_branch,
     get_file |-> get_file, create_file |-> create_file,
     update_file |-> update_file, delete_file |-> delete_file,
     list_commits |-> list_commits, get_commit |-> get_commit,
     list_tags |-> list_tags, create_tag |-> create_tag,
     list_pipelines |-> list_pipelines, get_pipeline |-> get_pipeline,
     create_pipeline |-> create_pipeline, retry_pipeline |-> retry_pipeline,
     cancel_pipeline |-> cancel_pipeline, list_jobs |-> list_jobs,
     get_job |-> get_job, retry_job |-> retry_job, cancel_job |-> cancel_job,
     get_job_log |-> get_job_log, list_groups |-> list_groups,
     get_group |-> get_group, create_group |-> create_group,
     update_group |-> update_group, delete_group |-> delete_group,
     list_group_members |-> list_group_members,
     add_group_member |-> add_group_member,
     get_current_user |-> get_current_user, get_user |-> get_user,
     list_users |-> list_users, search_users |-> search_users,
     list_labels |-> list_labels, create_label |-> create_label,
     update_label |-> update_label, delete_label |-> delete_label,
     list_milestones |-> list_milestones,
     create_milestone |-> create_milestone,
     update_milestone |-> update_milestone,
     close_milestone |-> close_milestone]

ToolNames == DOMAIN Tools

\* the parameters a check reads
CheckArgs(chk) == IF chk.c = "pagination" THEN {chk.a, chk.n} ELSE {chk.a}

\* tools whose signature has include_fields
HasIncludeFields(t) == Tools[t].shape \in {"filter", "filter_if", "list", "list_if"}

\* the parameters of a tool that the model follows: the checked ones, the
\* ones sent without a check and include_fields
ToolParams(t) ==
    UNION {CheckArgs(Tools[t].checks[i]) : i \in 1..Len(Tools[t].checks)}
    \cup Tools[t].unchecked
    \cup (IF HasIncludeFields(t) THEN {"include_fields"} ELSE {})

\* one check applied to the current argument values
RunCheck(chk, a) ==
    CASE chk.c = "project_id" -> validate_project_id(a[chk.a])
      [] chk.c = "group_id" -> validate_group_id(a[chk.a])
      [] chk.c = "user_id" -> validate_user_id(a[chk.a])
      [] chk.c = "iid" -> validate_iid(a[chk.a], chk.n)
      [] chk.c = "issue_iid" -> check_issue_iid(a[chk.a])
      [] chk.c = "pagination" -> validate_pagination(a[chk.a], a[chk.n])
      [] chk.c = "branch" -> validate_branch_name(a[chk.a])
      [] chk.c = "opt_branch" ->
            IF a[chk.a].t # "NoneType" THEN validate_branch_name(a[chk.a])
            ELSE Return(a[chk.a])
      [] chk.c = "nes" -> validate_non_empty_string(a[chk.a], chk.n)
      [] chk.c = "opt_nes" ->
            IF a[chk.a].t # "NoneType" THEN validate_non_empty_string(a[chk.a], chk.n)
            ELSE Return(a[chk.a])
      [] chk.c = "inline_string" -> check_inline_string(a[chk.a], chk.a, chk.n)
      [] chk.c = "visibility" -> validate_visibility(a[chk.a])
      [] chk.c = "opt_visibility" ->
            IF a[chk.a].t # "NoneType" THEN validate_visibility(a[chk.a])
            ELSE Return(a[chk.a])
      [] chk.c = "access_level" -> validate_access_level(a[chk.a])
      [] chk.c = "enum" ->
            check_enum(a[chk.a], chk.a, EnumAllowed[chk.n], EnumText[chk.n])
      [] chk.c = "member" ->
            check_member(a[chk.a], chk.a, EnumAllowed[chk.n], EnumText[chk.n])

\* the assignment of a check's result to the tool's local variables
Assign(chk, a, v) ==
    IF chk.c = "pagination"
    THEN [a EXCEPT ![chk.a] = v.page, ![chk.n] = v.per_page]
    ELSE [a EXCEPT ![chk.a] = v]

RECURSIVE RunChecks_last_wins(_, _, _)
\* the validation part with every check made and the last fault surfaced
RunChecks_last_wins(checks, i, a) ==
    IF i > Len(checks) THEN Return(a)
    ELSE LET o == RunCheck(checks[i], a)
             rest == RunChecks_last_wins(checks, i + 1,
                        IF Raised(o) THEN a ELSE Assign(checks[i], a, o.value))
         IN IF Raised(rest) THEN rest
            ELSE IF Raised(o) THEN o
            ELSE rest

\* the validation part cut short: only the first check is made
RunChecks_first_only(checks, i, a) ==
    IF checks = <<>> THEN Return(a)
    ELSE LET o == RunCheck(checks[1], a)
         IN IF Raised(o) THEN o ELSE Return(Assign(checks[1], a, o.value))

RECURSIVE RunChecks(_, _, _)
\* the validation part of a tool body: the checks from the i-th on, in
\* order; the first one that raises ends the body
RunChecks(checks, i, a) ==
    IF i > Len(checks) THEN Return(a)
    ELSE LET o == RunCheck(checks[i], a)
         IN IF Raised(o) THEN o
            ELSE RunChecks(checks, i + 1, Assign(checks[i], a, o.value))

\* the timeout, in seconds, of every httpx.Client
RequestTimeout == 30

\* the request a tool issues, as handed to httpx: list tools send page and
\* per_page in the query
\* the characters urllib.parse.quote never encodes: letters, digits, "_.-~"
AlwaysSafe ==
    DOMAIN LowerMap \cup {LowerMap[c] : c \in DOMAIN LowerMap} \cup DigitSet
    \cup {"_", ".", "-", "~"}

\* the byte, in hexadecimal, of the other ASCII characters of the argument
\* values
HexOf ==
    (" " :> <<"2", "0">>) @@ ("#" :> <<"2", "3">>) @@ ("%" :> <<"2", "5">>) @@
    ("&" :> <<"2", "6">>) @@ ("+" :> <<"2", "B">>) @@ ("/" :> <<"2", "F">>) @@
    (":" :> <<"3", "A">>) @@ ("=" :> <<"3", "D">>) @@ ("?" :> <<"3", "F">>) @@
    ("@" :> <<"4", "0">>)

RECURSIVE quote_slash_safe(_)
\* urllib.parse.quote with its default safe='/'
quote_slash_safe(string) ==
    IF string = <<>> THEN <<>>
    ELSE (IF Head(string) \in AlwaysSafe \cup {"/"} THEN <<Head(string)>>
          ELSE <<"%">> \o HexOf[Head(string)])
         \o quote_slash_safe(Tail(string))

RECURSIVE quote(_)
\* urllib.parse.quote(string, safe=''): a character outside AlwaysSafe
\* becomes "%" and the two hexadecimal digits of its byte
quote(string) ==
    IF string = <<>> THEN <<>>
    ELSE (IF Head(string) \in AlwaysSafe THEN <<Head(string)>>
          ELSE <<"%">> \o HexOf[Head(string)])
         \o quote(Tail(string))

\* urllib.parse.quote(branch, safe='')
encode_branch_name(branch) == quote(branch)

\* the text an element of the endpoint f-string contributes
PathText(el, v) ==
    CASE el.k = "seg" -> <<el.s>>
      [] el.k = "var" -> Format(v[el.a])
      [] el.k = "enc" -> encode_branch_name(v[el.a].v)
      [] el.k = "quote" -> quote(v[el.a].v)

RECURSIVE JoinPath(_, _, _)
JoinPath(path, i, v) ==
    IF i > Len(path) THEN <<>>
    ELSE (IF i > 1 THEN <<"/">> ELSE <<>>) \o PathText(path[i], v)
         \o JoinPath(path, i + 1, v)

\* the endpoint of tool t: its f-string with the validated values v; a
\* literal segment is one element of the sequence, every other character is
\* an element of its own
Endpoint(t, v) == JoinPath(Tools[t].path, 1, v)

\* every test written as `is not None`
FieldSent_not_none_only(f, v) ==
    CASE f.when = "always" -> TRUE
      [] f.when = "truthy" -> v[f.arg].t # "NoneType"
      [] f.when = "not_none" -> v[f.arg].t # "NoneType"

\* whether the body puts the entry into the map
FieldSent(f, v) ==
    CASE f.when = "always" -> TRUE
      [] f.when = "truthy" -> Truthy(v[f.arg])
      [] f.when = "not_none" -> v[f.arg].t # "NoneType"

\* the value of the entry
FieldValue(f, v) ==
    CASE f.how = "value" -> v[f.arg]
      [] f.how = "close" -> PyStr(<<"c", "l", "o", "s", "e">>)
      [] f.how = "reopen" -> PyStr(<<"r", "e", "o", "p", "e", "n">>)
      [] f.how = "items" ->
            LET d == v[f.arg].v
                ks == CHOOSE q \in [1..Cardinality(DOMAIN d) -> DOMAIN d] :
                         {q[i] : i \in DOMAIN q} = DOMAIN d
            IN PyList([i \in DOMAIN ks |->
                          PyDict((<<"k", "e", "y">> :> PyStr(ks[i]))
                                 @@ (<<"v", "a", "l", "u", "e">> :> d[ks[i]]))])

\* the params or data map of tool t, from the values v the body holds
\* after its checks
RequestMap(t, v) ==
    LET fs == Tools[t].fields
        sent == {i \in 1..Len(fs) : FieldSent(fs[i], v)}
    IN [key \in {fs[i].key : i \in sent} |->
           FieldValue(fs[CHOOSE i \in sent : fs[i].key = key], v)]

Request(t, v, c) ==
    [tool |-> t,
     method |-> Tools[t].method,
     endpoint |-> Endpoint(t, v),
     base_url |-> c.base_url,
     token |-> c.token,
     verify |-> c.verify_ssl,
     timeout |-> RequestTimeout,
     params |-> IF Tools[t].into = "params" THEN RequestMap(t, v) ELSE PyNone,
     json |-> IF Tools[t].into = "json" THEN RequestMap(t, v) ELSE PyNone]

\* Response.is_success
is_success(status_code) == 200 <= status_code /\ status_code <= 299

HTTPStatusError(response) ==
    [cls |-> "HTTPStatusError", response |-> response,
     msg |-> Msg("", "HTTP status error", "", IntToStr(response.status_code))]

\* what follows client.request in make_request: a transport exception
\* propagates, raise_for_status raises for a status that is not 2xx, and the
\* body is decoded with response.json(), which raises when it is not JSON
make_request(sent) ==
    IF Raised(sent) THEN sent
    ELSE IF ~is_success(sent.value.status_code)
    THEN Raise(HTTPStatusError(sent.value))
    ELSE sent.value.json

\* the success confirmation of a delete tool
Confirmation(t, v) == [success |-> TRUE, message |-> [t |-> "str", tool |-> t, of |-> v]]

\* what a tool body does once client.request has answered
tool_tail(t, a, v, sent) ==
    LET d == Tools[t]
    IN IF d.shape = "log"
       THEN \* get_job_log: no JSON decoding, the text is wrapped
            IF Raised(sent) THEN sent
            ELSE IF ~is_success(sent.value.status_code)
            THEN Raise(HTTPStatusError(sent.value))
            ELSE Return([log |-> sent.value.text, job_id |-> v["job_id"],
                         project_id |-> v["project_id"]])
       ELSE LET r == make_request(sent)
            IN IF Raised(r) THEN r
               ELSE CASE d.shape = "filter" ->
                           Return(filter_fields(r.value, a["include_fields"], d.resource_type))
                      [] d.shape = "filter_if" ->
                           IF Truthy(a["include_fields"])
                           THEN Return(filter_fields(r.value, a["include_fields"], NoResourceType))
                           ELSE r
                      [] d.shape = "raw" -> r
                      [] d.shape = "list" ->
                           paginate_response(
                               filter_fields(r.value, a["include_fields"], d.resource_type),
                               v["page"], v["per_page"], PyNone)
                      [] d.shape = "list_if" ->
                           paginate_response(
                               IF Truthy(a["include_fields"])
                               THEN filter_fields(r.value, a["include_fields"], NoResourceType)
                               ELSE r.value,
                               v["page"], v["per_page"], PyNone)
                      [] d.shape = "list_raw" ->
                           paginate_response(r.value, v["page"], v["per_page"], PyNone)
                      [] d.shape = "delete" -> Return(Confirmation(t, v))

\* a whole tool body as a function of what it reads: its arguments, the
\* environment and the remote's answer to its request (read only when the
\* checks pass and the configuration resolves)
tool_body(t, a, e, sent) ==
    LET checked == RunChecks(Tools[t].checks, 1, a)
        config == get_gitlab_config(e)
    IN IF Raised(checked) THEN checked
       ELSE IF Raised(config) THEN config
       ELSE tool_tail(t, a, checked.value, sent)

----------------------------------------------------------------------------
(* The remote: what client.request can give back *)

k_secret == <<"s", "e", "c", "r", "e", "t">>
k_error == <<"e", "r", "r", "o", "r">>
s_404_Not_Found == <<"4", "0", "4", " ", "N", "o", "t", " ", "F", "o", "u", "n", "d">>
s_taken == <<"h", "a", "s", " ", "a", "l", "r", "e", "a", "d", "y", " ", "b", "e", "e", "n", " ", "t", "a", "k", "e", "n">>

\* a record of the remote: top-level keys of the default sets, a key of no
\* default set, and a nested object
Rec(i) ==
    PyDict((k_id :> PyInt(i)) @@ (k_name :> PyStr(<<"n">>))
           @@ (k_secret :> PyStr(<<"s">>))
           @@ (k_author :> PyDict((k_id :> PyInt(7)) @@ (k_secret :> PyStr(<<"x">>)))))

RecList(n) == PyList([i \in 1..n |-> Rec(i)])

JSONDecodeError ==
    [cls |-> "JSONDecodeError",
     msg |-> Msg("", "Expecting value: line 1 column 1 (char 0)", "", <<>>)]

\* a response body: its text, and what response.json() does with it
Body(text, json) == [text |-> Lit(text), json |-> json]

B_record == Body("{record}", Return(Rec(1)))
B_list(n) == Body("[records]", Return(RecList(n)))
B_number == Body("5", Return(PyInt(5)))
B_empty == Body("", Raise(JSONDecodeError))
B_html == Body("<html>Bad Gateway</html>", Raise(JSONDecodeError))
B_msg_str ==
    Body("{\"message\":\"404 Not Found\"}",
         Return(PyDict(k_message :> PyStr(s_404_Not_Found))))
B_msg_obj ==
    Body("{\"message\":{\"name\":[\"has already been taken\"]}}",
         Return(PyDict(k_message :> PyDict(k_name :> PyList(<<PyStr(s_taken)>>)))))
B_msg_arr ==
    Body("{\"message\":[\"has already been taken\"]}",
         Return(PyDict(k_message :> PyList(<<PyStr(s_taken)>>))))
B_msg_num == Body("{\"message\":404}", Return(PyDict(k_message :> PyInt(404))))
B_msg_null == Body("{\"message\":null}", Return(PyDict(k_message :> PyNone)))
B_no_msg ==
    Body("{\"error\":\"404 Not Found\"}",
         Return(PyDict(k_error :> PyStr(s_404_Not_Found))))
B_arr == Body("[]", Return(PyList(<<>>)))
\* an object with the empty string among its keys
B_empty_key ==
    Body("{\"\":1,\"id\":2}", Return(PyDict((<<>> :> PyInt(1)) @@ (k_id :> PyInt(2)))))
B_empty_key_list ==
    Body("[{\"\":1,\"id\":2},{record},5]",
         Return(PyList(<<PyDict((<<>> :> PyInt(1)) @@ (k_id :> PyInt(2))), Rec(1), PyInt(5)>>)))

Response(status_code, body) ==
    Return([status_code |-> status_code, text |-> body.text, json |-> body.json])

TransportError(cls, text) == Raise([cls |-> cls, msg |-> Msg("", text, "", <<>>)])

\* default of per_page in every list tool
DefaultPerPage == 20
\* default of page in every list tool
DefaultPage == 1

\* bound: the remote returns lists of 0..MaxShortList records, or a full
\* default page
MaxShortList == 2
ListLens == (0..MaxShortList) \cup {DefaultPerPage}

ErrorBodies ==
    {B_msg_str, B_msg_obj, B_msg_arr, B_msg_num, B_msg_null, B_no_msg, B_arr,
     B_number, B_empty, B_html}
SuccessBodies == {B_record, B_number, B_empty} \cup {B_list(n) : n \in ListLens}

\* status codes the remote answers with in the tool specifications
SuccessStatuses == {200, 201, 204}
ErrorStatuses == {301, 400, 401, 403, 404, 409, 422, 429, 499, 500, 503, 599}

TransportErrors ==
    {TransportError("ConnectError", "All connection attempts failed"),
     TransportError("ConnectTimeout", "timed out"),
     TransportError("ReadTimeout", "The read operation timed out"),
     TransportError("ReadError", "Connection reset by peer")}

\* everything the remote may do with a request
AllOutcomes ==
    {Response(c, b) : c \in SuccessStatuses, b \in SuccessBodies}
    \cup {Response(c, b) : c \in ErrorStatuses, b \in ErrorBodies}
    \cup TransportErrors

\* a success and a failure
FewOutcomes == {Response(200, B_record), Response(404, B_msg_str)}

\* a small selection of it
BasicOutcomes ==
    {Response(200, B_record), Response(200, B_number), Response(204, B_empty),
     Response(404, B_msg_str), Response(400, B_msg_obj), Response(502, B_html),
     TransportError("ConnectError", "All connection attempts failed"),
     TransportError("ReadTimeout", "The read operation timed out"),
     TransportError("ReadError", "Connection reset by peer")}
    \cup {Response(200, B_list(n)) : n \in ListLens}

----------------------------------------------------------------------------
(* The environment and the callers' arguments *)

Env(token, url, verify) ==
    [GITLAB_TOKEN |-> token, GITLAB_URL |-> url, GITLAB_VERIFY_SSL |-> verify]

s_tok == <<"g", "l", "p", "a", "t", "-", "x">>
s_url == <<"h", "t", "t", "p", "s", ":", "/", "/", "g", "l", ".", "e", "x", "a", "m", "p", "l", "e", "/">>

GoodEnv == Env(PyStr(s_tok), PyStr(s_url), PyNone)
\* environments of the tool specifications: a usable one, one without the
\* token
ToolEnvs == {GoodEnv, Env(PyNone, PyStr(s_url), PyNone)}

s_7 == <<"7">>
s_abc == <<"a", "b", "c">>
s_main == <<"m", "a", "i", "n">>
s_feature == <<" ", "f", "e", "a", "t", "u", "r", "e", "/", "x", " ">>
s_blank == <<" ", " ">>
s_id_name == <<"i", "d", ",", " ", "n", "a", "m", "e">>

IdInputs == {PyInt(123), PyInt(-1), PyStr(s_7), PyStr(s_abc), PyFloat(12, 0)}
PageInputs == {PyInt(DefaultPage), PyInt(2), PyInt(0), PyFloat(1, 0)}
PerPageInputs ==
    {PyInt(DefaultPerPage), PyInt(1), PyInt(MaxPerPage), PyInt(MaxPerPage + 1),
     PyInt(0), PyStr(s_abc)}
StrInputs == {PyStr(s_main), PyStr(s_feature), PyStr(s_blank), PyInt(5)}
OptStrInputs == {PyNone, PyStr(s_main), PyStr(s_blank), PyInt(5)}
EnumInputs(n) ==
    {PyNone, PyStr(<<>>), PyStr(s_abc), CHOOSE x \in EnumAllowed[n] : TRUE}
IncludeInputs == {PyNone, PyStr(k_all), PyStr(s_id_name)}

\* the argument values tried, by kind of parameter
WideInputs ==
    [project_id |-> IdInputs, group_id |-> IdInputs, user_id |-> IdInputs,
     iid |-> IdInputs, issue_iid |-> IdInputs,
     page |-> PageInputs, per_page |-> PerPageInputs,
     branch |-> StrInputs, nes |-> StrInputs, inline_string |-> StrInputs,
     opt_branch |-> OptStrInputs, opt_nes |-> OptStrInputs,
     visibility |-> {PyStr(s_private), PyStr(s_public), PyStr(s_abc), PyNone},
     opt_visibility |-> {PyNone, PyStr(s_internal), PyStr(s_abc), PyStr(<<>>)},
     access_level |-> {PyInt(30), PyInt(50), PyInt(5), PyStr(s_abc)},
     mr_state |-> EnumInputs("mr_state"),
     state_event |-> EnumInputs("state_event"),
     pipeline_status |-> EnumInputs("pipeline_status"),
     job_scope |-> EnumInputs("job_scope"),
     milestone_state |-> EnumInputs("milestone_state"),
     encoding |-> {PyStr(s_text), PyStr(s_base64), PyStr(s_abc)},
     include_fields |-> IncludeInputs,
     free_required |-> {PyStr(s_main)}, free_optional |-> {PyNone},
     free_visibility |-> {PyStr(s_private)}, variables |-> {PyNone},
     flag |-> {PyBool(FALSE)}]

\* valid argument values only
ValidInputs ==
    [project_id |-> {PyInt(123)}, group_id |-> {PyInt(123)}, user_id |-> {PyStr(s_7)},
     iid |-> {PyInt(123)}, issue_iid |-> {PyInt(123)},
     page |-> {PyInt(DefaultPage), PyInt(2)},
     per_page |-> {PyInt(DefaultPerPage), PyInt(1)},
     branch |-> {PyStr(s_feature)}, nes |-> {PyStr(s_main)},
     inline_string |-> {PyStr(s_feature)},
     opt_branch |-> {PyNone}, opt_nes |-> {PyStr(s_main)},
     visibility |-> {PyStr(s_private)}, opt_visibility |-> {PyNone},
     access_level |-> {PyInt(30)},
     mr_state |-> {PyNone}, state_event |-> {PyNone},
     pipeline_status |-> {PyNone}, job_scope |-> {PyNone},
     milestone_state |-> {PyNone}, encoding |-> {PyStr(s_text)},
     include_fields |-> IncludeInputs,
     free_required |-> {PyStr(s_main)}, free_optional |-> {PyNone},
     free_visibility |-> {PyStr(s_private)}, variables |-> {PyNone},
     flag |-> {PyBool(FALSE)}]

\* the kind of a parameter of a tool, for choosing its values
ArgKind(t, k) ==
    IF k = "include_fields" THEN "include_fields"
    ELSE IF k \in Tools[t].unchecked
    THEN CASE k = "visibility" -> "free_visibility"
           [] k = "variables" -> "variables"
           [] k = "initialize_with_readme" -> "flag"
           [] OTHER -> IF k \in Tools[t].optional THEN "free_optional"
                       ELSE "free_required"
    ELSE LET cs == Tools[t].checks
             i == CHOOSE j \in 1..Len(cs) : k \in CheckArgs(cs[j])
         IN IF cs[i].c = "pagination" THEN k
            ELSE IF cs[i].c \in {"enum", "member"} THEN cs[i].n
            ELSE cs[i].c

RECURSIVE ArgSetsOver(_, _, _)
ArgSetsOver(t, keys, inputs) ==
    IF keys = {} THEN {EmptyMap}
    ELSE LET k == CHOOSE x \in keys : TRUE
         IN {(k :> v) @@ f : v \in inputs[ArgKind(t, k)],
                             f \in ArgSetsOver(t, keys \ {k}, inputs)}

\* all calls of tool t with its parameters drawn from inputs
ArgSets(t, inputs) == ArgSetsOver(t, ToolParams(t), inputs)

----------------------------------------------------------------------------
(* The state machine of tool invocations *)

Procs == {"p1", "p2"}

NoTool == "none"
NoCfg == [base_url |-> <<>>, token |-> <<>>, verify_ssl |-> FALSE]
NoResp == [kind |-> "none"]
NoResult == [kind |-> "none"]

\* the values every specification draws from are built once, before the
\* first step of any process
Built(values) == \A x \in values : x = x

Init ==
    /\ Built(AllOutcomes \cup BasicOutcomes \cup FewOutcomes)
    /\ Built({Tools})
    /\ env \in ToolEnvs
    /\ pc = [p \in Procs |-> "idle"]
    /\ tool = [p \in Procs |-> NoTool]
    /\ args = [p \in Procs |-> EmptyMap]
    /\ vals = [p \in Procs |-> EmptyMap]
    /\ cfg = [p \in Procs |-> NoCfg]
    /\ reqs = [p \in Procs |-> <<>>]
    /\ resp = [p \in Procs |-> NoResp]
    /\ result = [p \in Procs |-> NoResult]
    /\ fn = "none"
    /\ fnArgs = <<>>
    /\ fnRet = NoResult
    /\ default_fields = DEFAULT_FIELDS

\* the host calls a tool, its arguments drawn from inputs
Invoke(p, inputs) ==
    /\ pc[p] = "idle"
    /\ \E t \in ToolNames :
          \E a \in ArgSets(t, inputs) :
             /\ tool' = [tool EXCEPT ![p] = t]
             /\ args' = [args EXCEPT ![p] = a]
    /\ pc' = [pc EXCEPT ![p] = "validate"]
    /\ UNCHANGED <<env, default_fields, vals, cfg, reqs, resp, result, fn, fnArgs, fnRet>>

\* the checks of the tool body; a raised ValueError ends the call in the wrapper
Validate(p) ==
    /\ pc[p] = "validate"
    /\ LET o == RunChecks(Tools[tool[p]].checks, 1, args[p])
       IN IF Raised(o)
          THEN /\ result' = [result EXCEPT ![p] = handle_gitlab_errors(o)]
               /\ pc' = [pc EXCEPT ![p] = "done"]
               /\ vals' = vals
          ELSE /\ vals' = [vals EXCEPT ![p] = o.value]
               /\ pc' = [pc EXCEPT ![p] = "config"]
               /\ result' = result
    /\ UNCHANGED <<env, default_fields, tool, args, cfg, reqs, resp, fn, fnArgs, fnRet>>

\* the Configuration kept in a module-level cache: an invocation takes the
\* one another invocation has resolved
ResolveConfig_cached(p) ==
    /\ pc[p] = "config"
    /\ LET held == {q \in Procs : cfg[q] # NoCfg}
           o == IF held # {} THEN Return(cfg[CHOOSE q \in held : TRUE])
                ELSE get_gitlab_config(env)
       IN IF Raised(o)
          THEN /\ result' = [result EXCEPT ![p] = handle_gitlab_errors(o)]
               /\ pc' = [pc EXCEPT ![p] = "done"]
               /\ cfg' = cfg
          ELSE /\ cfg' = [cfg EXCEPT ![p] = o.value]
               /\ pc' = [pc EXCEPT ![p] = "send"]
               /\ result' = result
    /\ UNCHANGED <<env, default_fields, tool, args, vals, reqs, resp, fn, fnArgs, fnRet>>

\* get_gitlab_config, called by make_request (by get_job_log itself)
ResolveConfig(p) ==
    /\ pc[p] = "config"
    /\ LET o == get_gitlab_config(env)
       IN IF Raised(o)
          THEN /\ result' = [result EXCEPT ![p] = handle_gitlab_errors(o)]
               /\ pc' = [pc EXCEPT ![p] = "done"]
               /\ cfg' = cfg
          ELSE /\ cfg' = [cfg EXCEPT ![p] = o.value]
               /\ pc' = [pc EXCEPT ![p] = "send"]
               /\ result' = result
    /\ UNCHANGED <<env, default_fields, tool, args, vals, reqs, resp, fn, fnArgs, fnRet>>

\* the request repeated when the transport fails
Send_retry(p, outcomes) ==
    /\ pc[p] = "send"
    /\ reqs' = [reqs EXCEPT ![p] = Append(@, Request(tool[p], vals[p], cfg[p]))]
    /\ \E o \in outcomes :
          /\ resp' = [resp EXCEPT ![p] = o]
          /\ pc' = [pc EXCEPT ![p] = IF Raised(o) THEN "send" ELSE "shape"]
    /\ UNCHANGED <<env, default_fields, tool, args, vals, cfg, result, fn, fnArgs, fnRet>>

\* client.request / client.get: the request goes out and the remote answers
\* with one of outcomes (a response or a transport exception)
Send(p, outcomes) ==
    /\ pc[p] = "send"
    /\ reqs' = [reqs EXCEPT ![p] = Append(@, Request(tool[p], vals[p], cfg[p]))]
    /\ \E o \in outcomes : resp' = [resp EXCEPT ![p] = o]
    /\ pc' = [pc EXCEPT ![p] = "shape"]
    /\ UNCHANGED <<env, default_fields, tool, args, vals, cfg, result, fn, fnArgs, fnRet>>

\* the shaper cutting the default field list of the tool's resource type
\* down, in place, to its first name
Shape_writes_defaults(p) ==
    /\ pc[p] = "shape"
    /\ result' = [result EXCEPT ![p] =
                     handle_gitlab_errors(tool_tail(tool[p], args[p], vals[p], resp[p]))]
    /\ default_fields' =
          [rt \in DOMAIN default_fields |->
              IF rt = Tools[tool[p]].resource_type
              THEN SubSeq(default_fields[rt], 1, 1)
              ELSE default_fields[rt]]
    /\ pc' = [pc EXCEPT ![p] = "done"]
    /\ UNCHANGED <<env, tool, args, vals, cfg, reqs, resp, fn, fnArgs, fnRet>>

\* the rest of the body and the wrapper's return
Shape(p) ==
    /\ pc[p] = "shape"
    /\ result' = [result EXCEPT ![p] =
                     handle_gitlab_errors(tool_tail(tool[p], args[p], vals[p], resp[p]))]
    /\ pc' = [pc EXCEPT ![p] = "done"]
    /\ UNCHANGED <<env, default_fields, tool, args, vals, cfg, reqs, resp, fn, fnArgs, fnRet>>

\* the caller has the result; nothing of the invocation is kept
Finish(p) ==
    /\ pc[p] = "done"
    /\ pc' = [pc EXCEPT ![p] = "idle"]
    /\ tool' = [tool EXCEPT ![p] = NoTool]
    /\ args' = [args EXCEPT ![p] = EmptyMap]
    /\ vals' = [vals EXCEPT ![p] = EmptyMap]
    /\ cfg' = [cfg EXCEPT ![p] = NoCfg]
    /\ reqs' = [reqs EXCEPT ![p] = <<>>]
    /\ resp' = [resp EXCEPT ![p] = NoResp]
    /\ result' = [result EXCEPT ![p] = NoResult]
    /\ UNCHANGED <<env, default_fields, fn, fnArgs, fnRet>>

\* Tool specification: every tool, called with valid and invalid arguments,
\* against a remote that answers with the basic outcomes
Next ==
    \/ Invoke("p1", WideInputs)
    \/ Validate("p1")
    \/ ResolveConfig("p1")
    \/ Send("p1", BasicOutcomes)
    \/ Shape("p1")
    \/ Finish("p1")

Spec == Init /\ [][Next]_vars

\* Remote specification: every tool, called with valid arguments, against a
\* remote that answers with every status, body and transport exception
NextRemote ==
    \/ Invoke("p1", ValidInputs)
    \/ Validate("p1")
    \/ ResolveConfig("p1")
    \/ Send("p1", AllOutcomes)
    \/ Shape("p1")
    \/ Finish("p1")

SpecRemote == Init /\ [][NextRemote]_vars

----------------------------------------------------------------------------
(* Function specification: the pure functions of the shaper and of the
   classifier, applied directly to bounded inputs *)

\* bounds of the arguments of paginate_response
MaxItems == 3
MaxPage == 3
MaxTotal == 6

PaginateItems == {RecList(n) : n \in 0..MaxItems}
PaginateTotals == {PyNone} \cup {PyInt(n) : n \in 0..MaxTotal}

s_id_missing == <<"i", "d", ",", "m", "i", "s", "s", "i", "n", "g">>
s_all_padded == <<" ", "a", "l", "l", " ">>
k_missing == <<"m", "i", "s", "s", "i", "n", "g">>

\* a record without the name key
RecNoName == PyDict((k_id :> PyInt(9)) @@ (k_secret :> PyStr(<<"s">>)))

FilterData ==
    {Rec(1), RecNoName, PyDict(EmptyMap), PyInt(5),
     PyList(<<Rec(1), PyInt(5), RecNoName>>)}
    \cup {RecList(n) : n \in 0..MaxShortList}

FilterIncludes ==
    {PyNone, PyStr(k_all), PyStr(s_id_name), PyStr(s_id_missing),
     PyStr(s_all_padded), PyStr(<<>>),
     PyList(<<k_id, k_author>>), PyList(<<k_missing>>), PyList(<<>>)}

FilterResourceTypes == DOMAIN DEFAULT_FIELDS \cup {NoResourceType, "", "snippet"}

\* bounds of the status codes handed to the classifier
MinStatus == 100
MaxStatus == 610

\* the faults handed to the wrapper
Faults ==
    {HTTPStatusError(Response(c, b).value) : c \in MinStatus..MaxStatus, b \in ErrorBodies}
    \cup {o.exc : o \in TransportErrors}
    \cup {ValueError(MustBePositive("project_id", PyInt(-1))), JSONDecodeError,
          [cls |-> "TypeError", msg |-> Msg("", "object has no len()", "int", <<>>)],
          [cls |-> "RuntimeError", msg |-> Msg("", "boom", "", <<>>)]}

ApplyPaginate ==
    /\ fn = "none"
    /\ \E items \in PaginateItems, page \in 0..MaxPage, per_page \in 0..MaxItems,
          total \in PaginateTotals :
          /\ fnArgs' = <<items, PyInt(page), PyInt(per_page), total>>
          /\ fnRet' = paginate_response(items, PyInt(page), PyInt(per_page), total)
    /\ fn' = "paginate_response"
    /\ UNCHANGED <<env, default_fields, pc, tool, args, vals, cfg, reqs, resp, result>>

ApplyFilter ==
    /\ fn = "none"
    /\ \E data \in FilterData, include_fields \in FilterIncludes,
          resource_type \in FilterResourceTypes :
          /\ fnArgs' = <<data, include_fields, resource_type>>
          /\ fnRet' = Return(filter_fields(data, include_fields, resource_type))
    /\ fn' = "filter_fields"
    /\ UNCHANGED <<env, default_fields, pc, tool, args, vals, cfg, reqs, resp, result>>

\* a body that raises fault, under the wrapper
ApplyWrapper ==
    /\ fn = "none"
    /\ \E fault \in Faults :
          /\ fnArgs' = <<fault>>
          /\ fnRet' = handle_gitlab_errors(Raise(fault))
    /\ fn' = "handle_gitlab_errors"
    /\ UNCHANGED <<env, default_fields, pc, tool, args, vals, cfg, reqs, resp, result>>

\* bound of the integers handed to the validators: -MaxAbsInt..MaxAbsInt,
\* and the integers next to the per_page limit
MaxAbsInt == 3

ValidatorInputs ==
    {PyInt(n) : n \in (0 - MaxAbsInt)..MaxAbsInt}
    \cup {PyInt(MaxPerPage - 1), PyInt(MaxPerPage), PyInt(MaxPerPage + 1)}
    \cup {PyFloat(w, d) : w \in {-1, 0, 1, 12}, d \in {0, 5}}
    \cup {PyStr(cs) : cs \in {<<"7">>, <<" ", "7", " ">>, <<"+", "7">>, <<"-", "5">>, <<"0">>, <<"1", "0", "0">>, <<"1", "0", "1">>, <<"a", "b", "c">>, <<>>, <<"1", ".", "5">>, <<"1", "2", "a", "b", "c">>}}
    \cup {PyNone, PyList(<<>>), PyBool(TRUE), PyBool(FALSE)}

PositiveIntValidators ==
    {"validate_project_id", "validate_iid", "validate_group_id", "validate_user_id",
     "check_issue_iid"}

\* the parameter name handed to validate_iid
IidParam == "mr_iid"

\* the parameter a positive-integer validator names in its messages
ParamOf(validator) ==
    CASE validator = "validate_project_id" -> "project_id"
      [] validator = "validate_iid" -> IidParam
      [] validator = "validate_group_id" -> "group_id"
      [] validator = "validate_user_id" -> "user_id"
      [] validator = "check_issue_iid" -> "issue_iid"

\* the call validator(x); check_issue_iid is the check written inline in
\* the issue tools
CallValidator(validator, x) ==
    CASE validator = "validate_project_id" -> validate_project_id(x)
      [] validator = "validate_iid" -> validate_iid(x, IidParam)
      [] validator = "validate_group_id" -> validate_group_id(x)
      [] validator = "validate_user_id" -> validate_user_id(x)
      [] validator = "check_issue_iid" -> check_issue_iid(x)

ApplyValidator ==
    /\ fn = "none"
    /\ \E validator \in PositiveIntValidators, x \in ValidatorInputs :
          /\ fn' = validator
          /\ fnArgs' = <<x>>
          /\ fnRet' = CallValidator(validator, x)
    /\ UNCHANGED <<env, default_fields, pc, tool, args, vals, cfg, reqs, resp, result>>

ApplyPagination ==
    /\ fn = "none"
    /\ \E page \in ValidatorInputs, per_page \in ValidatorInputs :
          /\ fnArgs' = <<page, per_page>>
          /\ fnRet' = validate_pagination(page, per_page)
    /\ fn' = "validate_pagination"
    /\ UNCHANGED <<env, default_fields, pc, tool, args, vals, cfg, reqs, resp, result>>

\* values of GITLAB_URL: with and without trailing slashes, with each scheme,
\* without a scheme, and the bare scheme prefixes
UrlInputs ==
    {PyNone, PyStr(s_url), PyStr(s_url \o <<"/", "/">>)}
    \cup {PyStr(cs) : cs \in {<<"h", "t", "t", "p", ":", "/", "/", "h">>, <<"f", "t", "p", ":", "/", "/", "h">>, <<"g", "l", ".", "e", "x", "a", "m", "p", "l", "e">>, <<"h", "t", "t", "p", "s", ":", "/", "/">>, <<"h", "t", "t", "p", ":", "/", "/", "/">>, <<>>, <<"h", "t", "t", "p", "s", ":", "/">>, <<"H", "T", "T", "P", "S", ":", "/", "/", "h">>}}

\* the spellings of "true", "1" and "yes" in either case of each letter
TrueFlags ==
    {<<a, b, c, d>> : a \in {"t", "T"}, b \in {"r", "R"}, c \in {"u", "U"}, d \in {"e", "E"}}
    \cup {<<a, b, c>> : a \in {"y", "Y"}, b \in {"e", "E"}, c \in {"s", "S"}}
    \cup {<<"1">>}

OtherFlags ==
    {<<"f", "a", "l", "s", "e">>, <<"F", "a", "l", "s", "e">>, <<"F", "A", "L", "S", "E">>, <<"0">>, <<"n", "o">>, <<"N", "o">>, <<>>, <<" ", "t", "r", "u", "e">>, <<"t", "r", "u", "e", " ">>, <<"o", "n">>, <<"t", "r", "u">>, <<"y", "e", "s", "s">>, <<"1", "1">>, <<"t">>, <<"y">>}

\* values of GITLAB_VERIFY_SSL
VerifyInputs == {PyNone} \cup {PyStr(cs) : cs \in TrueFlags \cup OtherFlags}

\* environments of get_gitlab_config
ConfigEnvs ==
    {Env(token, url, verify) :
        token \in {PyNone, PyStr(<<>>), PyStr(s_tok)},
        url \in UrlInputs,
        verify \in {PyNone, PyStr(<<"Y", "e", "s">>), PyStr(<<"n", "o">>)}}
    \cup {Env(PyStr(s_tok), PyStr(s_url), verify) : verify \in VerifyInputs}

ApplyConfig ==
    /\ fn = "none"
    /\ \E e \in ConfigEnvs :
          /\ fnArgs' = <<e>>
          /\ fnRet' = get_gitlab_config(e)
    /\ fn' = "get_gitlab_config"
    /\ UNCHANGED <<env, default_fields, pc, tool, args, vals, cfg, reqs, resp, result>>

\* the caller has the value
Forget ==
    /\ fn # "none"
    /\ fn' = "none"
    /\ fnArgs' = <<>>
    /\ fnRet' = NoResult
    /\ UNCHANGED <<env, default_fields, pc, tool, args, vals, cfg, reqs, resp, result>>

NextPure ==
    \/ ApplyPaginate
    \/ ApplyFilter
    \/ ApplyWrapper
    \/ ApplyValidator
    \/ ApplyPagination
    \/ ApplyConfig
    \/ Forget

SpecPure == Init /\ [][NextPure]_vars

\* Request specification: every tool, called with valid checked arguments
\* and with every kind of value for the arguments that go into the endpoint,
\* the query parameters and the JSON body
PathInputs ==
    {PyStr(cs) : cs \in {<<"m", "a", "i", "n">>,
                         <<"f", "e", "a", "t", "u", "r", "e", "/", "t", "e", "s", "t", "-", "b", "r", "a", "n", "c", "h">>,
                         <<" ", "a", " ", "b", "/", "c", "?", "d", "#", "e", "%", "f", " ">>,
                         <<".", ".", "/", "x">>,
                         <<"a", "+", "b", "&", "c", "=", "d", ":", "e", "@", "f">>}}

VisibilityInputs ==
    {PyStr(s_private), PyStr(s_internal), PyStr(s_public), PyStr(s_abc),
     PyStr(<<"P", "r", "i", "v", "a", "t", "e">>), PyStr(<<>>)}

BodyInputs ==
    [project_id |-> {PyInt(123)}, group_id |-> {PyInt(123)}, user_id |-> {PyStr(s_7)},
     iid |-> {PyInt(123)}, issue_iid |-> {PyInt(123)},
     page |-> {PyInt(DefaultPage)}, per_page |-> {PyInt(DefaultPerPage)},
     branch |-> PathInputs, nes |-> {PyStr(s_main)},
     inline_string |-> PathInputs,
     opt_branch |-> {PyNone, PyStr(s_feature)},
     opt_nes |-> {PyNone, PyStr(s_main), PyStr(<<>>)},
     visibility |-> VisibilityInputs \cup {PyNone},
     opt_visibility |-> VisibilityInputs \cup {PyNone},
     access_level |-> {PyInt(30)},
     mr_state |-> EnumInputs("mr_state"),
     state_event |-> EnumInputs("state_event"),
     pipeline_status |-> EnumInputs("pipeline_status"),
     job_scope |-> EnumInputs("job_scope"),
     milestone_state |-> EnumInputs("milestone_state"),
     encoding |-> {PyStr(s_text)},
     include_fields |-> {PyNone},
     free_required |-> {PyStr(s_main), PyStr(<<>>)},
     free_optional |-> {PyNone, PyStr(<<>>), PyStr(s_abc), PyList(<<>>)},
     free_visibility |-> VisibilityInputs \cup {PyNone},
     variables |-> {PyNone, PyDict(EmptyMap), PyDict(s_abc :> PyStr(s_7))},
     flag |-> {PyBool(FALSE), PyBool(TRUE)}]

NextBody ==
    \/ Invoke("p1", BodyInputs)
    \/ Validate("p1")
    \/ ResolveConfig("p1")
    \/ Send("p1", FewOutcomes)
    \/ Shape("p1")
    \/ Finish("p1")

SpecBody == Init /\ [][NextBody]_vars

----------------------------------------------------------------------------
(* The startup check: validate_gitlab_connection and main *)

\* x.get(...) of a value that is not a dict
AttributeError(x) ==
    [cls |-> "AttributeError",
     msg |-> Msg("", " object has no attribute 'get'", TypeName(x), <<>>)]

\* the request of a probe: make_request("GET", endpoint, params=...)
ProbeRequest(endpoint, per_page, c) ==
    [tool |-> "validate_gitlab_connection",
     method |-> "GET",
     endpoint |-> <<endpoint>>,
     base_url |-> c.base_url,
     token |-> c.token,
     verify |-> c.verify_ssl,
     timeout |-> RequestTimeout,
     params |-> IF per_page = PyNone THEN PyNone ELSE [per_page |-> per_page],
     json |-> PyNone]

\* the connectivity and authentication steps with every fault let through
read_field_ignore_fault(r) ==
    IF Raised(r) THEN Return(PyNone)
    ELSE IF r.value.t # "dict" THEN Raise(AttributeError(r.value))
    ELSE Return(r.value)

\* the connectivity and authentication steps: the body of the probe is read
\* with .get(key, "unknown"), which only a dict has
read_field(r) ==
    IF Raised(r) THEN r
    ELSE IF r.value.t # "dict" THEN Raise(AttributeError(r.value))
    ELSE Return(r.value)

\* the permission step downgrading every HTTP status fault
test_permissions_any_status(r) ==
    IF Raised(r) /\ IsInstance(r.exc, "HTTPStatusError")
    THEN Return(PyNone)
    ELSE r

\* the permission step: an HTTP 403 is a warning, anything else is raised
\* again
test_permissions(r) ==
    IF Raised(r) /\ IsInstance(r.exc, "HTTPStatusError")
       /\ r.exc.response.status_code = 403
    THEN Return(PyNone)
    ELSE r

\* the except clauses of validate_gitlab_connection, in their order; c is
\* the local config, NoCfg while it is None
startup_fault(e, c) ==
    LET base_url == IF c # NoCfg THEN c.base_url ELSE <<"G", "i", "t", "L", "a", "b">>
        wrapped(text, value) ==
            Raise([cls |-> "ValueError", msg |-> Msg("", text, "", value), cause |-> e])
    IN IF IsInstance(e, "ValueError")
       THEN wrapped("Configuration error: ", e.msg)
       ELSE IF IsInstance(e, "ConnectError")
       THEN wrapped("Failed to connect to GitLab at {base_url}. Check your network connection and GITLAB_URL setting.",
                    base_url)
       ELSE IF IsInstance(e, "HTTPStatusError")
       THEN IF e.response.status_code = 401
            THEN wrapped("Authentication failed. Your GITLAB_TOKEN may be invalid or expired. Generate a new token at https://gitlab.com/-/profile/personal_access_tokens",
                         <<>>)
            ELSE wrapped("GitLab API error: {status_code} - {text}",
                         <<e.response.status_code, e.response.text>>)
       ELSE IF IsInstance(e, "TimeoutException")
       THEN wrapped("Connection timeout to {base_url}. The GitLab instance may be slow or unreachable.",
                    base_url)
       ELSE Raise(e)

\* main is entered: validate_gitlab_connection resolves the configuration
StartupConfig(p) ==
    /\ pc[p] = "main"
    /\ fn' = "validate_gitlab_connection"
    /\ fnArgs' = <<>>
    /\ LET o == get_gitlab_config(env)
       IN IF Raised(o)
          THEN /\ fnRet' = startup_fault(o.exc, NoCfg)
               /\ pc' = [pc EXCEPT ![p] = "aborted"]
               /\ cfg' = cfg
          ELSE /\ fnRet' = fnRet
               /\ pc' = [pc EXCEPT ![p] = "version"]
               /\ cfg' = [cfg EXCEPT ![p] = o.value]
    /\ UNCHANGED <<env, default_fields, tool, args, vals, reqs, resp, result>>

\* one probe: make_request resolves the configuration again, the request
\* goes out, the remote answers with one of outcomes, and the step decides
\* on the result of make_request: the permission step is the one after
\* which the check returns
Probe(p, endpoint, per_page, next, outcomes) ==
    LET c == get_gitlab_config(env)
    IN IF Raised(c)
       THEN /\ fnRet' = startup_fault(c.exc, cfg[p])
            /\ pc' = [pc EXCEPT ![p] = "aborted"]
            /\ UNCHANGED <<reqs, resp, fnArgs>>
       ELSE /\ reqs' = [reqs EXCEPT ![p] = Append(@, ProbeRequest(endpoint, per_page, c.value))]
            /\ \E o \in outcomes :
                  /\ resp' = [resp EXCEPT ![p] = o]
                  /\ fnArgs' = Append(fnArgs, o)
                  /\ LET r == IF next = "checked" THEN test_permissions(make_request(o))
                              ELSE read_field(make_request(o))
                     IN IF Raised(r)
                        THEN /\ fnRet' = startup_fault(r.exc, cfg[p])
                             /\ pc' = [pc EXCEPT ![p] = "aborted"]
                        ELSE /\ fnRet' = IF next = "checked" THEN Return(PyBool(TRUE))
                                         ELSE fnRet
                             /\ pc' = [pc EXCEPT ![p] = next]

\* Test connectivity: GET version
ProbeVersion(p, outcomes) ==
    /\ pc[p] = "version"
    /\ Probe(p, "version", PyNone, "user", outcomes)
    /\ UNCHANGED <<env, default_fields, tool, args, vals, cfg, result, fn>>

\* Test authentication: GET user
ProbeUser(p, outcomes) ==
    /\ pc[p] = "user"
    /\ Probe(p, "user", PyNone, "projects", outcomes)
    /\ UNCHANGED <<env, default_fields, tool, args, vals, cfg, result, fn>>

\* Test permissions: GET projects with per_page = 1; then return True
ProbeProjects(p, outcomes) ==
    /\ pc[p] = "projects"
    /\ Probe(p, "projects", PyInt(1), "checked", outcomes)
    /\ UNCHANGED <<env, default_fields, tool, args, vals, cfg, result, fn>>

\* main: the check has returned, mcp.run() serves the tools
Serve(p) ==
    /\ pc[p] = "checked"
    /\ pc' = [pc EXCEPT ![p] = "serving"]
    /\ UNCHANGED <<env, default_fields, tool, args, vals, cfg, reqs, resp, result, fn, fnArgs, fnRet>>

\* environments the process is started in
StartupEnvs ==
    {GoodEnv,
     Env(PyNone, PyStr(s_url), PyNone),
     Env(PyStr(s_tok), PyStr(<<"g", "l", ".", "e", "x", "a", "m", "p", "l", "e">>), PyNone),
     Env(PyStr(s_tok), PyNone, PyStr(<<"n", "o">>))}

\* what the remote may answer to a probe
ProbeOutcomes ==
    AllOutcomes
    \cup {Response(200, b) : b \in {B_msg_str, B_arr, B_html}}
    \cup {Response(c, B_msg_str) : c \in {302, 402, 502}}

InitStartup ==
    /\ Built(ProbeOutcomes)
    /\ env \in StartupEnvs
    /\ pc = [p \in Procs |-> IF p = "p1" THEN "main" ELSE "idle"]
    /\ tool = [p \in Procs |-> NoTool]
    /\ args = [p \in Procs |-> EmptyMap]
    /\ vals = [p \in Procs |-> EmptyMap]
    /\ cfg = [p \in Procs |-> NoCfg]
    /\ reqs = [p \in Procs |-> <<>>]
    /\ resp = [p \in Procs |-> NoResp]
    /\ result = [p \in Procs |-> NoResult]
    /\ fn = "none"
    /\ fnArgs = <<>>
    /\ fnRet = NoResult
    /\ default_fields = DEFAULT_FIELDS

\* Startup specification: the process from the entry of main to mcp.run
NextStartup ==
    \/ StartupConfig("p1")
    \/ ProbeVersion("p1", ProbeOutcomes)
    \/ ProbeUser("p1", ProbeOutcomes)
    \/ ProbeProjects("p1", ProbeOutcomes)
    \/ Serve("p1")

SpecStartup == InitStartup /\ [][NextStartup]_vars

\* Configuration specification: every tool, called with valid arguments, in
\* a process started under each value of the TLS-verification variable
InitConfig ==
    /\ Built(FewOutcomes)
    /\ Built({Tools})
    /\ env \in {Env(PyStr(s_tok), PyStr(s_url), verify) : verify \in VerifyInputs}
                  \cup {Env(PyNone, PyStr(s_url), PyStr(<<"n", "o">>))}
    /\ pc = [p \in Procs |-> "idle"]
    /\ tool = [p \in Procs |-> NoTool]
    /\ args = [p \in Procs |-> EmptyMap]
    /\ vals = [p \in Procs |-> EmptyMap]
    /\ cfg = [p \in Procs |-> NoCfg]
    /\ reqs = [p \in Procs |-> <<>>]
    /\ resp = [p \in Procs |-> NoResp]
    /\ result = [p \in Procs |-> NoResult]
    /\ fn = "none"
    /\ fnArgs = <<>>
    /\ fnRet = NoResult
    /\ default_fields = DEFAULT_FIELDS

NextConfig ==
    \/ Invoke("p1", ValidInputs)
    \/ Validate("p1")
    \/ ResolveConfig("p1")
    \/ Send("p1", FewOutcomes)
    \/ Shape("p1")
    \/ Finish("p1")

SpecConfig == InitConfig /\ [][NextConfig]_vars

----------------------------------------------------------------------------
(* Two invocations at a time, and an environment that changes *)

s_tok2 == <<"g", "l", "p", "a", "t", "-", "y">>
s_url2 == <<"h", "t", "t", "p", ":", "/", "/", "l", "o", "c", "a", "l", "/">>

\* the environments the process goes through: the usual one, one with
\* another token, URL and TLS flag, and one without a token
ChangingEnvs ==
    {GoodEnv,
     Env(PyStr(s_tok2), PyStr(s_url2), PyStr(<<"n", "o">>)),
     Env(PyNone, PyStr(s_url), PyNone)}

\* tools of each composition: filtered, paginated, raw text, no arguments
SharedTools == {"get_project", "list_projects", "get_job_log", "get_current_user"}

\* a valid and an invalid project_id, with and without a field list
NarrowInputs ==
    [ValidInputs EXCEPT !.project_id = {PyInt(123), PyInt(-1)},
                        !.include_fields = {PyNone, PyStr(s_id_name)},
                        !.page = {PyInt(DefaultPage)},
                        !.per_page = {PyInt(DefaultPerPage), PyInt(1)}]

\* the host calls one of tools, its arguments drawn from inputs
InvokeAmong(p, tools, inputs) ==
    /\ pc[p] = "idle"
    /\ \E t \in tools :
          \E a \in ArgSets(t, inputs) :
             /\ tool' = [tool EXCEPT ![p] = t]
             /\ args' = [args EXCEPT ![p] = a]
    /\ pc' = [pc EXCEPT ![p] = "validate"]
    /\ UNCHANGED <<env, default_fields, vals, cfg, reqs, resp, result, fn, fnArgs, fnRet>>

\* the environment of the process is changed from outside; make_request
\* reads it and builds the request in one synchronous stretch, so no change
\* falls between the two
ChangeEnv(envs) ==
    /\ \A p \in Procs : pc[p] # "send"
    /\ \E e \in envs \ {env} : env' = e
    /\ UNCHANGED <<default_fields, pc, tool, args, vals, cfg, reqs, resp, result,
                   fn, fnArgs, fnRet>>

InitEnv ==
    /\ Built(FewOutcomes)
    /\ Built(ChangingEnvs)
    /\ Built({Tools})
    /\ env = GoodEnv
    /\ pc = [p \in Procs |-> "idle"]
    /\ tool = [p \in Procs |-> NoTool]
    /\ args = [p \in Procs |-> EmptyMap]
    /\ vals = [p \in Procs |-> EmptyMap]
    /\ cfg = [p \in Procs |-> NoCfg]
    /\ reqs = [p \in Procs |-> <<>>]
    /\ resp = [p \in Procs |-> NoResp]
    /\ result = [p \in Procs |-> NoResult]
    /\ fn = "none"
    /\ fnArgs = <<>>
    /\ fnRet = NoResult
    /\ default_fields = DEFAULT_FIELDS

\* Environment specification: two invocation slots, valid arguments, and an
\* environment that changes between the steps
NextEnv ==
    \/ InvokeAmong("p1", SharedTools, ValidInputs)
    \/ InvokeAmong("p2", SharedTools, ValidInputs)
    \/ Validate("p1")
    \/ Validate("p2")
    \/ ResolveConfig("p1")
    \/ ResolveConfig("p2")
    \/ Send("p1", FewOutcomes)
    \/ Send("p2", FewOutcomes)
    \/ Shape("p1")
    \/ Shape("p2")
    \/ Finish("p1")
    \/ Finish("p2")
    \/ ChangeEnv(ChangingEnvs)

SpecEnv == InitEnv /\ [][NextEnv]_vars

\* Interleaving specification: two invocations at the same time, every
\* interleaving of their steps, under an environment that does not change
NextConcurrent ==
    \/ InvokeAmong("p1", SharedTools, NarrowInputs)
    \/ InvokeAmong("p2", SharedTools, NarrowInputs)
    \/ Validate("p1")
    \/ Validate("p2")
    \/ ResolveConfig("p1")
    \/ ResolveConfig("p2")
    \/ Send("p1", BasicOutcomes)
    \/ Send("p2", BasicOutcomes)
    \/ Shape("p1")
    \/ Shape("p2")
    \/ Finish("p1")
    \/ Finish("p2")

SpecConcurrent == Init /\ [][NextConcurrent]_vars

\* Fault specification: every tool, called with valid and invalid
\* arguments, in a process whose environment resolves or lacks the token,
\* has an empty token or has a base URL without a scheme prefix
FaultEnvs ==
    {GoodEnv,
     Env(PyNone, PyStr(s_url), PyNone),
     Env(PyStr(<<>>), PyStr(s_url), PyNone),
     Env(PyStr(s_tok), PyStr(<<"g", "l", ".", "e", "x", "a", "m", "p", "l", "e">>), PyNone),
     Env(PyStr(s_tok), PyStr(<<"f", "t", "p", ":", "/", "/", "h">>), PyStr(<<"n", "o">>))}

InitFault ==
    /\ Built(FewOutcomes)
    /\ Built({Tools})
    /\ env \in FaultEnvs
    /\ pc = [p \in Procs |-> "idle"]
    /\ tool = [p \in Procs |-> NoTool]
    /\ args = [p \in Procs |-> EmptyMap]
    /\ vals = [p \in Procs |-> EmptyMap]
    /\ cfg = [p \in Procs |-> NoCfg]
    /\ reqs = [p \in Procs |-> <<>>]
    /\ resp = [p \in Procs |-> NoResp]
    /\ result = [p \in Procs |-> NoResult]
    /\ fn = "none"
    /\ fnArgs = <<>>
    /\ fnRet = NoResult
    /\ default_fields = DEFAULT_FIELDS

NextFault ==
    \/ Invoke("p1", WideInputs)
    \/ Validate("p1")
    \/ ResolveConfig("p1")
    \/ Send("p1", FewOutcomes)
    \/ Shape("p1")
    \/ Finish("p1")

SpecFault == InitFault /\ [][NextFault]_vars

\* Shaping specification: every tool, called with valid arguments and with
\* an absent, an empty, a blank, a two-name and the all-fields
\* include_fields, against a
\* remote that answers with objects, lists and a number
ShapeInputs ==
    [ValidInputs EXCEPT !.include_fields =
                            {PyNone, PyStr(<<>>), PyStr(s_blank), PyStr(s_id_name),
                             PyStr(k_all)},
                        !.page = {PyInt(DefaultPage)},
                        !.per_page = {PyInt(DefaultPerPage), PyInt(2)}]

ShapeOutcomes ==
    {Response(200, B_record), Response(200, B_empty_key),
     Response(200, B_empty_key_list), Response(200, B_number),
     Response(404, B_msg_str)}
    \cup {Response(200, B_list(n)) : n \in ListLens}

InitShape ==
    /\ Built(ShapeOutcomes)
    /\ Built({Tools})
    /\ env = GoodEnv
    /\ pc = [p \in Procs |-> "idle"]
    /\ tool = [p \in Procs |-> NoTool]
    /\ args = [p \in Procs |-> EmptyMap]
    /\ vals = [p \in Procs |-> EmptyMap]
    /\ cfg = [p \in Procs |-> NoCfg]
    /\ reqs = [p \in Procs |-> <<>>]
    /\ resp = [p \in Procs |-> NoResp]
    /\ result = [p \in Procs |-> NoResult]
    /\ fn = "none"
    /\ fnArgs = <<>>
    /\ fnRet = NoResult
    /\ default_fields = DEFAULT_FIELDS

NextShape ==
    \/ Invoke("p1", ShapeInputs)
    \/ Validate("p1")
    \/ ResolveConfig("p1")
    \/ Send("p1", ShapeOutcomes)
    \/ Shape("p1")
    \/ Finish("p1")

SpecShape == InitShape /\ [][NextShape]_vars

----------------------------------------------------------------------------
(* Properties *)

ErrorRecordKeys == {"error", "error_type", "message", "details", "action"}

IsErrorRecord(r) == DOMAIN r = ErrorRecordKeys /\ r.error = TRUE

\* the outcome of the body of the invocation in slot p
BodyOutcome(p) == tool_body(tool[p], args[p], env, resp[p])

\* C1: no tool leaks a raw fault.  When an invocation has ended, it has
\* returned normally; if its body raised (whatever the exception), the
\* value returned is an Error Record with exactly the five keys and
\* error = true; if its body returned, that value is returned unchanged.
C1_NoRawFault ==
    \A p \in Procs :
        pc[p] = "done" =>
            /\ Returned(result[p])
            /\ Raised(BodyOutcome(p)) => IsErrorRecord(result[p].value)
            /\ Returned(BodyOutcome(p)) => result[p] = BodyOutcome(p)

\* an invocation whose body raised an exception of none of the named
\* classes has ended with an Error Record
C1_Witness ==
    /\ pc["p1"] = "done"
    /\ Raised(BodyOutcome("p1"))
    /\ ~IsInstance(BodyOutcome("p1").exc, "HTTPStatusError")
    /\ ~IsInstance(BodyOutcome("p1").exc, "ConnectError")
    /\ ~IsInstance(BodyOutcome("p1").exc, "TimeoutException")
    /\ ~IsInstance(BodyOutcome("p1").exc, "ValueError")
    /\ IsErrorRecord(result["p1"].value)

\* some check of the tool in slot p, applied to the argument as the caller
\* gave it, raises
SomeArgumentInvalid(p) ==
    \E i \in 1..Len(Tools[tool[p]].checks) :
        Raised(RunCheck(Tools[tool[p]].checks[i], args[p]))

\* C2: validation precedes the network.  In an invocation with an invalid
\* validated argument no request is ever issued, and the invocation ends
\* with an Error Record of type ValidationError.
C2_ValidationPrecedesNetwork ==
    \A p \in Procs :
        (tool[p] # NoTool /\ SomeArgumentInvalid(p)) =>
            /\ reqs[p] = <<>>
            /\ pc[p] \in {"validate", "done"}
            /\ pc[p] = "done" =>
                  /\ Returned(result[p])
                  /\ IsErrorRecord(result[p].value)
                  /\ result[p].value.error_type = "ValidationError"

\* get_project with project_id = -1 has ended: no request, a ValidationError
C2_Witness ==
    /\ pc["p1"] = "done"
    /\ tool["p1"] = "get_project"
    /\ args["p1"]["project_id"] = PyInt(-1)
    /\ reqs["p1"] = <<>>
    /\ result["p1"].value.error_type = "ValidationError"

\* C3: at most one request per invocation and no retry.  An ended
\* invocation has issued exactly one request when all its checks passed and
\* the configuration resolved, and none otherwise; in particular exactly
\* one when the request ended in an HTTP status, connection or timeout fault.
C3_AtMostOneRequest ==
    \A p \in Procs :
        /\ Len(reqs[p]) <= 1
        /\ pc[p] = "done" =>
              Len(reqs[p]) = IF ~SomeArgumentInvalid(p) /\ Returned(get_gitlab_config(env))
                             THEN 1 ELSE 0
        /\ (pc[p] = "done" /\ resp[p] # NoResp
               /\ (Raised(resp[p]) \/ ~is_success(resp[p].value.status_code))) =>
              Len(reqs[p]) = 1

\* an invocation whose request timed out has ended with that one request
C3_Witness ==
    /\ pc["p1"] = "done"
    /\ resp["p1"] # NoResp
    /\ Raised(resp["p1"])
    /\ IsInstance(resp["p1"].exc, "TimeoutException")
    /\ Len(reqs["p1"]) = 1
    /\ result["p1"].value.error_type = "TimeoutError"

\* the classification table
TableType(fault) ==
    IF IsInstance(fault, "HTTPStatusError")
    THEN LET c == fault.response.status_code
         IN CASE c = 401 -> "AuthenticationError"
              [] c = 403 -> "AuthorizationError"
              [] c = 404 -> "NotFoundError"
              [] c = 422 -> "ValidationError"
              [] c = 429 -> "RateLimitError"
              [] c \in 500..599 -> "ServerError"
              [] OTHER -> "HTTPError"
    ELSE IF IsInstance(fault, "ConnectError") THEN "ConnectionError"
    ELSE IF IsInstance(fault, "TimeoutException") THEN "TimeoutError"
    ELSE IF IsInstance(fault, "ValueError") THEN "ValidationError"
    ELSE "UnexpectedError"

ErrorTypes ==
    {"AuthenticationError", "AuthorizationError", "NotFoundError", "ValidationError",
     "RateLimitError", "ServerError", "HTTPError", "ConnectionError", "TimeoutError",
     "UnexpectedError"}

\* C4: fault classification is total and matches the table.  Whatever
\* fault the wrapper receives, it returns an Error Record whose error_type
\* is the one the table gives for the fault, one of the fixed ten.
C4_Classification ==
    fn = "handle_gitlab_errors" =>
        /\ Returned(fnRet)
        /\ IsErrorRecord(fnRet.value)
        /\ fnRet.value.error_type = TableType(fnArgs[1])
        /\ fnRet.value.error_type \in ErrorTypes

\* an HTTP status fault with status 599 has been classified ServerError
C4_Witness ==
    /\ fn = "handle_gitlab_errors"
    /\ IsInstance(fnArgs[1], "HTTPStatusError")
    /\ fnArgs[1].response.status_code = 599
    /\ fnRet.value.error_type = "ServerError"

\* the invocation in slot p has ended and its request was answered with a
\* status that is not 2xx
EndedWithHttpFault(p) ==
    /\ pc[p] = "done"
    /\ resp[p] # NoResp
    /\ Returned(resp[p])
    /\ ~is_success(resp[p].value.status_code)

\* C5: the details of an Error Record.  For an HTTP status fault it is the
\* message field of the decoded body when the body decodes to an object with
\* that field, else the raw response text; for every other fault it is the
\* fault's string representation.  HTTP 404 with body {"message": "404 Not
\* Found"} gives NotFoundError with details "404 Not Found".
C5_Details ==
    \A p \in Procs :
        /\ EndedWithHttpFault(p) =>
              LET r == resp[p].value
                  has_message == /\ Returned(r.json)
                                 /\ r.json.value.t = "dict"
                                 /\ k_message \in DOMAIN r.json.value.v
              IN /\ IsErrorRecord(result[p].value)
                 /\ result[p].value.details =
                       IF has_message THEN r.json.value.v[k_message] ELSE r.text
                 /\ (r.status_code = 404 /\ r.json = B_msg_str.json) =>
                       /\ result[p].value.error_type = "NotFoundError"
                       /\ result[p].value.details = PyStr(s_404_Not_Found)
        /\ (pc[p] = "done" /\ ~EndedWithHttpFault(p) /\ Raised(BodyOutcome(p))) =>
              result[p].value.details = StrOfExc(BodyOutcome(p).exc)

\* get_project answered with 404 and {"message": "404 Not Found"}
C5_Witness ==
    /\ EndedWithHttpFault("p1")
    /\ tool["p1"] = "get_project"
    /\ resp["p1"] = Response(404, B_msg_str)
    /\ result["p1"].value.details = PyStr(s_404_Not_Found)

\* C6: in every Error Record, message, details and action are strings,
\* whatever the JSON kind of the body's message field.
C6_FieldsAreStrings ==
    \A p \in Procs :
        (pc[p] = "done" /\ IsErrorRecord(result[p].value)) =>
            /\ result[p].value.message.t = "str"
            /\ result[p].value.details.t = "str"
            /\ result[p].value.action.t = "str"

DeleteTools ==
    {"delete_project", "delete_group", "delete_branch", "delete_file", "delete_label"}

\* C7: a delete tool returns the success confirmation whenever its request
\* is answered with a 2xx status, whatever the body; it returns an Error
\* Record only when validation or the request fails.
C7_DeleteSucceedsOn2xx ==
    \A p \in Procs :
        (pc[p] = "done" /\ tool[p] \in DeleteTools) =>
            LET answered_2xx == /\ resp[p] # NoResp
                                /\ Returned(resp[p])
                                /\ is_success(resp[p].value.status_code)
            IN IF answered_2xx
               THEN /\ ~IsErrorRecord(result[p].value)
                    /\ DOMAIN result[p].value = {"success", "message"}
                    /\ result[p].value.success = TRUE
               ELSE IsErrorRecord(result[p].value)

ListTools ==
    {"list_projects", "list_issues", "list_merge_requests", "list_branches",
     "list_commits", "list_tags", "list_pipelines", "list_jobs", "list_groups",
     "list_group_members", "list_users", "search_users", "list_labels",
     "list_milestones", "list_issue_comments", "list_merge_request_comments"}

PaginatedKeys == {"items", "page", "per_page", "has_next", "next_page"}

\* the invocation in slot p is of a list tool and has ended without error
ListResult(p) ==
    /\ pc[p] = "done"
    /\ tool[p] \in ListTools
    /\ ~IsErrorRecord(result[p].value)

\* default pagination and a remote answering with exactly 20 records
TwentyRecords(p) ==
    /\ args[p]["page"] = PyInt(1)
    /\ args[p]["per_page"] = PyInt(20)
    /\ resp[p] = Response(200, B_list(20))

\* C8: every non-error result of a list tool is a Paginated Response with
\* page >= 1, 1 <= per_page <= 100, has_next boolean, next_page = page + 1
\* when has_next and null otherwise, and page and per_page equal to those
\* sent in the query; with default pagination and exactly 20 records it has
\* the 20 records, page 1, per_page 20, has_next true and next_page 2.
C8_PaginatedResponse ==
    \A p \in Procs :
        ListResult(p) =>
            LET r == result[p].value
            IN /\ DOMAIN r = PaginatedKeys
               /\ r.page.t = "int" /\ r.page.v >= 1
               /\ r.per_page.t = "int" /\ r.per_page.v >= 1 /\ r.per_page.v <= 100
               /\ r.has_next \in BOOLEAN
               /\ r.next_page = IF r.has_next THEN PyInt(r.page.v + 1) ELSE PyNone
               /\ Len(reqs[p]) = 1
               /\ r.page = reqs[p][1].params.page
               /\ r.per_page = reqs[p][1].params.per_page
               /\ TwentyRecords(p) =>
                     /\ r.items.t = "list" /\ Len(r.items.v) = 20
                     /\ r.page = PyInt(1) /\ r.per_page = PyInt(20)
                     /\ r.has_next = TRUE /\ r.next_page = PyInt(2)

\* list_issues with default pagination has returned a page of 20 records
C8_Witness ==
    /\ ListResult("p1")
    /\ tool["p1"] = "list_issues"
    /\ TwentyRecords("p1")
    /\ result["p1"].value.has_next = TRUE

\* C9: the pagination heuristic.  For all items, page, per_page and total,
\* paginate_response returns has_next = (len(items) = per_page) whatever
\* total is, next_page = page + 1 if has_next else null, items, page and
\* per_page as given, and a total key exactly when total was supplied,
\* carrying the supplied value.
C9_PaginateLaw ==
    fn = "paginate_response" =>
        LET items == fnArgs[1]
            page == fnArgs[2]
            per_page == fnArgs[3]
            total == fnArgs[4]
            r == fnRet.value
        IN /\ Returned(fnRet)
           /\ r.has_next = (Len(items.v) = per_page.v)
           /\ r.next_page = IF Len(items.v) = per_page.v THEN PyInt(page.v + 1) ELSE PyNone
           /\ r.items = items /\ r.page = page /\ r.per_page = per_page
           /\ ("total" \in DOMAIN r) = (total # PyNone)
           /\ total # PyNone => r.total = total
           /\ DOMAIN r \subseteq PaginatedKeys \cup {"total"}

\* a full last page, total = page * per_page, still reports has_next
C9_Witness ==
    /\ fn = "paginate_response"
    /\ Len(fnArgs[1].v) = 2
    /\ fnArgs[2] = PyInt(2)
    /\ fnArgs[3] = PyInt(2)
    /\ fnArgs[4] = PyInt(4)
    /\ fnRet.value.has_next = TRUE
    /\ fnRet.value.total = PyInt(4)

\* whether the reference operator has an effective field set: an explicit
\* include list, or a known resource type
HasEffectiveSet(include_fields, resource_type) ==
    include_fields.t \in {"str", "list"} \/ resource_type \in DOMAIN DEFAULT_FIELDS

\* the effective field set: the explicit include list (a string split at
\* commas and trimmed), else the default set of the resource type
EffectiveSet(include_fields, resource_type) ==
    IF include_fields.t = "str"
    THEN {Strip(x) : x \in SetOf(Split(include_fields.v, ","))}
    ELSE IF include_fields.t = "list" THEN SetOf(include_fields.v)
    ELSE SetOf(DEFAULT_FIELDS[resource_type])

\* the restriction of one record to the keys of a set
Restricts(out, rec, keys) ==
    IF rec.t # "dict" THEN out = rec
    ELSE /\ out.t = "dict"
         /\ DOMAIN out.v = {k \in DOMAIN rec.v : k \in keys}
         /\ \A k \in DOMAIN out.v : out.v[k] = rec.v[k]

\* C10: filter_fields is the reference restriction.  With the "all" marker
\* or with no effective set the data is returned unchanged; otherwise the
\* single record, or each element of a list in its place, is mapped to
\* exactly its top-level keys that are in the effective set, with the
\* values (nested objects included) as they were.
C10_FilterIsRestriction ==
    fn = "filter_fields" =>
        LET data == fnArgs[1]
            include_fields == fnArgs[2]
            keys == EffectiveSet(include_fields, fnArgs[3])
            r == fnRet.value
        IN IF include_fields = PyStr(k_all) \/ ~HasEffectiveSet(include_fields, fnArgs[3])
           THEN r = data
           ELSE IF data.t = "list"
           THEN /\ r.t = "list"
                /\ Len(r.v) = Len(data.v)
                /\ \A i \in 1..Len(data.v) : Restricts(r.v[i], data.v[i], keys)
           ELSE Restricts(r, data, keys)

\* a list filtered by "id, name": the nested author is dropped with its key,
\* the record without name keeps only id
C10_Witness ==
    /\ fn = "filter_fields"
    /\ fnArgs[1] = PyList(<<Rec(1), PyInt(5), RecNoName>>)
    /\ fnArgs[2] = PyStr(s_id_name)
    /\ DOMAIN fnRet.value.v[1].v = {k_id, k_name}
    /\ DOMAIN fnRet.value.v[3].v = {k_id}

\* filtering a list by "id, name" changed it
FilterChanged ==
    /\ fn = "filter_fields"
    /\ fnArgs[1].t = "list"
    /\ fnArgs[2] = PyStr(s_id_name)
    /\ fnRet.value # fnArgs[1]

\* C11: filter idempotence.  Filtering the result of filter_fields again
\* with the same include_fields and resource_type gives the same result.
C11_FilterIdempotent ==
    fn = "filter_fields" =>
        filter_fields(fnRet.value, fnArgs[2], fnArgs[3]) = fnRet.value

\* a list that the filter changed, and that a second filtering leaves alone
C11_Witness ==
    /\ FilterChanged
    /\ filter_fields(fnRet.value, fnArgs[2], fnArgs[3]) = fnRet.value

\* x is accepted by int() or is an int already, and is not a float
Coercible(x) == x.t # "float" /\ (IsInstanceInt(x) \/ IntOf(x).ok)

\* the integer x stands for, when Coercible(x)
Coerced(x) == IF IsInstanceInt(x) THEN IntValue(x) ELSE IntOf(x).v

\* the validation fault raised for x names x's value (and, when with_type,
\* its type name)
NamesValue(o, x, with_type) ==
    /\ Raised(o)
    /\ o.exc.cls = "ValueError"
    /\ o.exc.msg.value = Format(x)
    /\ with_type => o.exc.msg.type = TypeName(x)

\* what the claim and its amendment agree on: accepted values
ReturnsPositive(o, x) ==
    /\ (x.t = "int" /\ x.v >= 1) => o = Return(x)
    /\ (x.t = "str" /\ IntOf(x).ok /\ IntOf(x).v >= 1) => o = Return(PyInt(IntOf(x).v))

\* C12 as stated: every non-positive integer, every non-coercible string and
\* every float is rejected with a message holding the offending value and
\* its type name; integers >= 1 are returned unchanged and strings that
\* parse to an integer >= 1 are returned parsed.
C12_Original ==
    fn \in PositiveIntValidators =>
        LET x == fnArgs[1]
        IN /\ ((x.t = "int" /\ x.v <= 0) \/ (x.t = "str" /\ ~IntOf(x).ok) \/ x.t = "float")
                 => NamesValue(fnRet, x, TRUE)
           /\ ReturnsPositive(fnRet, x)

\* C12 (amended): floats and non-coercible strings are rejected with a
\* message "must be an integer" holding the value and its type name;
\* non-positive integers are rejected with a message "must be a positive
\* integer" holding the value but no type name; every message names the
\* parameter; integers >= 1 are returned unchanged and strings that parse to
\* an integer >= 1 are returned parsed.
C12_ValidatorTotality ==
    fn \in PositiveIntValidators =>
        LET x == fnArgs[1]
        IN /\ ((x.t = "str" /\ ~IntOf(x).ok) \/ x.t = "float") =>
                 /\ NamesValue(fnRet, x, TRUE)
                 /\ fnRet.exc.msg.text = " must be an integer, got "
                 /\ fnRet.exc.msg.param = ParamOf(fn)
           /\ (x.t = "int" /\ x.v <= 0) =>
                 /\ NamesValue(fnRet, x, FALSE)
                 /\ fnRet.exc.msg.type = ""
                 /\ fnRet.exc.msg.text = " must be a positive integer, got: "
                 /\ fnRet.exc.msg.param = ParamOf(fn)
           /\ ReturnsPositive(fnRet, x)

\* validate_project_id(0) has raised, naming 0 without a type name
C12_Witness ==
    /\ fn = "validate_project_id"
    /\ fnArgs[1] = PyInt(0)
    /\ NamesValue(fnRet, PyInt(0), FALSE)
    /\ fnRet.exc.msg.type = ""

\* the fault o names parameter param with the message text
PaginationFault(o, param, text) ==
    /\ o.exc.cls = "ValueError"
    /\ o.exc.msg.param = param
    /\ o.exc.msg.text = text

\* C13: validate_pagination returns (page, per_page) as integers exactly
\* when both are integer-coercible non-floats with page >= 1 and
\* 1 <= per_page <= 100, and raises otherwise; the message raised is that of
\* a violation present in the arguments, "must be an integer", "must be >= 1"
\* or "per_page must be <= 100", and names the parameter that violates.
C13_Pagination ==
    fn = "validate_pagination" =>
        LET page == fnArgs[1]
            per_page == fnArgs[2]
            ok == /\ Coercible(page) /\ Coercible(per_page)
                  /\ Coerced(page) >= 1
                  /\ Coerced(per_page) >= 1 /\ Coerced(per_page) <= 100
        IN /\ Returned(fnRet) = ok
           /\ Returned(fnRet) =>
                 /\ IsInstanceInt(fnRet.value.page)
                 /\ IsInstanceInt(fnRet.value.per_page)
                 /\ IntValue(fnRet.value.page) = Coerced(page)
                 /\ IntValue(fnRet.value.per_page) = Coerced(per_page)
           /\ Raised(fnRet) =>
                 \/ PaginationFault(fnRet, "page", " must be an integer, got ")
                       /\ ~Coercible(page)
                 \/ PaginationFault(fnRet, "page", " must be >= 1, got: ")
                       /\ Coercible(page) /\ Coerced(page) < 1
                 \/ PaginationFault(fnRet, "per_page", " must be an integer, got ")
                       /\ ~Coercible(per_page)
                 \/ PaginationFault(fnRet, "per_page", " must be >= 1, got: ")
                       /\ Coercible(per_page) /\ Coerced(per_page) < 1
                 \/ PaginationFault(fnRet, "per_page", " must be <= 100, got: ")
                       /\ Coercible(per_page) /\ Coerced(per_page) > 100

\* per_page = 101 with a valid page is rejected as too large
C13_Witness ==
    /\ fn = "validate_pagination"
    /\ fnArgs = <<PyInt(1), PyInt(101)>>
    /\ Raised(fnRet)
    /\ PaginationFault(fnRet, "per_page", " must be <= 100, got: ")

\* C17: configuration invariant.  For every environment get_gitlab_config
\* either raises a configuration fault (token absent or empty, or URL without
\* an http:// or https:// prefix) or returns a Configuration whose token is
\* non-empty and whose base_url has no trailing slash and starts with
\* "http://" or "https://"; the default URL is used when the variable is
\* absent.
C17_ConfigInvariant ==
    fn = "get_gitlab_config" =>
        LET e == fnArgs[1]
            http == <<"h", "t", "t", "p", ":", "/", "/">>
            https == <<"h", "t", "t", "p", "s", ":", "/", "/">>
            no_token == e.GITLAB_TOKEN = PyNone \/ e.GITLAB_TOKEN.v = <<>>
            no_prefix == /\ e.GITLAB_URL # PyNone
                         /\ ~StartsWith(e.GITLAB_URL.v, http)
                         /\ ~StartsWith(e.GITLAB_URL.v, https)
        IN /\ Raised(fnRet) =>
                 /\ fnRet.exc.cls = "ValueError"
                 /\ no_token \/ no_prefix
           /\ Returned(fnRet) =>
                 LET c == fnRet.value
                 IN /\ c.token # <<>>
                    /\ c.token = e.GITLAB_TOKEN.v
                    /\ c.base_url # <<>>
                    /\ c.base_url[Len(c.base_url)] # "/"
                    /\ StartsWith(c.base_url, http) \/ StartsWith(c.base_url, https)
                    /\ e.GITLAB_URL = PyNone =>
                          c.base_url = https \o <<"g", "i", "t", "l", "a", "b", ".", "c", "o", "m">>

\* the TLS flag get_gitlab_config is to resolve under environment e
ExpectedFlag(e) ==
    e.GITLAB_VERIFY_SSL = PyNone \/ e.GITLAB_VERIFY_SSL.v \in TrueFlags

\* C18: the resolved TLS-verification flag is true exactly when the flag
\* variable is absent or its value is "true", "1" or "yes" in any case of its
\* letters, and false for every other value; the flag of every request
\* equals the flag resolved in the invocation that sent it.
C18_TlsFlag ==
    \A p \in Procs :
        /\ pc[p] \in {"send", "shape"} => cfg[p].verify_ssl = ExpectedFlag(env)
        /\ \A i \in 1..Len(reqs[p]) :
              /\ reqs[p][i].verify = ExpectedFlag(env)
              /\ reqs[p][i].verify = cfg[p].verify_ssl

\* a request has gone out with verification on under GITLAB_VERIFY_SSL=YeS
C18_Witness ==
    /\ env.GITLAB_VERIFY_SSL = PyStr(<<"Y", "e", "S">>)
    /\ Len(reqs["p1"]) = 1
    /\ reqs["p1"][1].verify = TRUE
    /\ cfg["p1"].verify_ssl = TRUE

\* a request has gone out with verification off under GITLAB_VERIFY_SSL=no
C18_FlagOff ==
    /\ env.GITLAB_VERIFY_SSL = PyStr(<<"n", "o">>)
    /\ Len(reqs["p1"]) = 1
    /\ reqs["p1"][1].verify = FALSE

\* the i-th probe was answered with a 2xx status and a decodable body
ProbeSucceeded(i) ==
    /\ i <= Len(fnArgs)
    /\ Returned(fnArgs[i])
    /\ fnArgs[i].value.status_code >= 200
    /\ fnArgs[i].value.status_code <= 299
    /\ Returned(fnArgs[i].value.json)

\* the i-th probe was answered with HTTP 403
ProbeForbidden(i) ==
    /\ i <= Len(fnArgs)
    /\ Returned(fnArgs[i])
    /\ fnArgs[i].value.status_code = 403

\* C19: startup check ordering.  The configuration is resolved before any
\* probe; the probes issued are a prefix of version, user, projects (the
\* last with per_page = 1), so at most three, in that order, none repeated;
\* a probe is issued only when every earlier one succeeded; mcp.run is
\* entered only after the check has returned True.
C19_StartupOrder ==
    LET rs == reqs["p1"]
        order == <<"version", "user", "projects">>
    IN /\ Len(rs) <= 3
       /\ Len(fnArgs) <= Len(rs)
       /\ \A i \in 1..Len(rs) :
             /\ rs[i].method = "GET"
             /\ rs[i].endpoint = <<order[i]>>
             /\ rs[i].params = IF i = 3 THEN [per_page |-> PyInt(1)] ELSE PyNone
             /\ cfg["p1"] # NoCfg
             /\ \A j \in 1..(i - 1) : ProbeSucceeded(j)
       /\ pc["p1"] = "serving" =>
             /\ fnRet = Return(PyBool(TRUE))
             /\ Len(rs) = 3

\* the tools are served after a project-list probe answered with 403
C19_Witness ==
    /\ pc["p1"] = "serving"
    /\ Len(reqs["p1"]) = 3
    /\ ProbeForbidden(3)

\* the check has ended: it returned or raised
CheckEnded == pc["p1"] \in {"checked", "serving", "aborted"}

\* C20: the startup check returns True exactly when the configuration
\* resolves, the version and current-user probes succeed and the
\* project-list probe succeeds or is answered with HTTP 403; a 403 on the
\* version or current-user probe aborts; every other fault on any probe
\* aborts with a raised error.
C20_StartupResult ==
    CheckEnded =>
        /\ fnRet = Return(PyBool(TRUE)) \/ Raised(fnRet)
        /\ fnRet = Return(PyBool(TRUE)) <=>
              /\ cfg["p1"] # NoCfg
              /\ ProbeSucceeded(1)
              /\ ProbeSucceeded(2)
              /\ ProbeSucceeded(3) \/ ProbeForbidden(3)
        /\ (ProbeForbidden(1) \/ ProbeForbidden(2)) =>
              /\ Raised(fnRet)
              /\ pc["p1"] = "aborted"
        /\ Raised(fnRet) <=> pc["p1"] = "aborted"

\* the check has raised for a project-list probe answered with HTTP 404
C20_Aborted404 ==
    /\ pc["p1"] = "aborted"
    /\ Len(fnArgs) = 3
    /\ Returned(fnArgs[3])
    /\ fnArgs[3].value.status_code = 404
    /\ Raised(fnRet)
    /\ fnRet.exc.cls = "ValueError"

\* the check has returned True after a project-list probe answered with 403
C20_Witness ==
    /\ pc["p1"] = "checked"
    /\ ProbeForbidden(3)
    /\ fnRet = Return(PyBool(TRUE))

\* the tools with a visibility parameter
VisibilityTools == {"create_project", "update_project", "create_group", "update_group"}

\* the caller of the invocation in slot p, a tool among tools, supplied a
\* visibility that is none of the three literals (None, for a parameter whose
\* default is None, is no value supplied)
IllegalVisibility(p, tools) ==
    /\ tool[p] \in tools
    /\ args[p]["visibility"] \notin {PyStr(s_private), PyStr(s_internal), PyStr(s_public)}
    /\ args[p]["visibility"] = PyNone => "visibility" \notin Tools[tool[p]].optional

\* an invocation of one of tools with an illegal visibility issues no
\* request and ends with a ValidationError Error Record, and no request of
\* these tools carries an illegal visibility
VisibilityRejected(tools) ==
    \A p \in Procs :
        /\ IllegalVisibility(p, tools) =>
              /\ reqs[p] = <<>>
              /\ pc[p] \in {"validate", "done"}
              /\ pc[p] = "done" =>
                    /\ Returned(result[p])
                    /\ IsErrorRecord(result[p].value)
                    /\ result[p].value.error_type = "ValidationError"
        /\ \A i \in 1..Len(reqs[p]) :
              (tool[p] \in tools /\ "visibility" \in DOMAIN reqs[p][i].json) =>
                  reqs[p][i].json["visibility"] \in
                      {PyStr(s_private), PyStr(s_internal), PyStr(s_public)}

\* C14: every tool that accepts a visibility argument (create_project,
\* update_project, create_group, update_group) rejects a supplied visibility
\* that is not exactly "private", "internal" or "public": it returns a
\* ValidationError Error Record and issues no request, so an illegal
\* visibility never appears in a request body.
C14_VisibilityRejected == VisibilityRejected(VisibilityTools)

\* the same of the two group tools alone
C14_GroupToolsReject == VisibilityRejected({"create_group", "update_group"})

\* the params or json map of a request
MapOf(r) == IF r.params # PyNone THEN r.params ELSE IF r.json # PyNone THEN r.json ELSE EmptyMap

\* an empty string, list or dict
IsEmptyValue(x) == x \in {PyStr(<<>>), PyList(<<>>), PyDict(EmptyMap)}

\* C15 as stated: the map of every request holds the key of an optional
\* parameter (one whose default is None) only if the caller supplied it, and
\* its value is never null nor empty.
C15_Original ==
    \A p \in Procs : \A n \in 1..Len(reqs[p]) :
        LET fs == Tools[tool[p]].fields
            m == MapOf(reqs[p][n])
        IN \A i \in 1..Len(fs) :
              (fs[i].arg \in Tools[tool[p]].optional /\ fs[i].key \in DOMAIN m) =>
                  /\ args[p][fs[i].arg] # PyNone
                  /\ m[fs[i].key] # PyNone
                  /\ ~IsEmptyValue(m[fs[i].key])

\* C15 (amended): the map of every request holds the key of an optional
\* parameter only if the caller supplied it, and its value is never null; a
\* parameter the tool tests for truthiness is never sent empty and is sent
\* whenever it is supplied non-empty; a parameter the tool tests for
\* not-None is sent whenever it is supplied, a supplied empty value as it
\* is.
C15_OptionalParameters ==
    \A p \in Procs : \A n \in 1..Len(reqs[p]) :
        LET fs == Tools[tool[p]].fields
            m == MapOf(reqs[p][n])
        IN \A i \in 1..Len(fs) :
              fs[i].arg \in Tools[tool[p]].optional =>
                  LET x == args[p][fs[i].arg]
                      key == fs[i].key
                  IN /\ key \in DOMAIN m =>
                           /\ x # PyNone
                           /\ m[key] # PyNone
                           /\ fs[i].when = "truthy" => ~IsEmptyValue(m[key])
                     /\ fs[i].when = "truthy" =>
                           (key \in DOMAIN m <=> (x # PyNone /\ ~IsEmptyValue(x)))
                     /\ fs[i].when = "not_none" =>
                           /\ key \in DOMAIN m <=> x # PyNone
                           /\ IsEmptyValue(x) => m[key] = x

\* update_project has sent {"name": ""} for name = "" and no other optional
\* parameter supplied
C15_Witness ==
    /\ tool["p1"] = "update_project"
    /\ Len(reqs["p1"]) = 1
    /\ args["p1"]["name"] = PyStr(<<>>)
    /\ reqs["p1"][1].json = [name |-> PyStr(<<>>)]

\* create_issue has sent only the title although description = "" and
\* labels = [] were supplied
C15_TruthyOmitted ==
    /\ tool["p1"] = "create_issue"
    /\ Len(reqs["p1"]) = 1
    /\ args["p1"]["description"] = PyStr(<<>>)
    /\ args["p1"]["labels"] = PyList(<<>>)
    /\ args["p1"]["assignee_ids"] = PyNone
    /\ DOMAIN reqs["p1"][1].json = {"title"}

\* the tools that put a branch name or a file path into the endpoint
EncodingTools ==
    {"get_branch", "delete_branch", "get_file", "create_file", "update_file", "delete_file"}

\* the number of elements of seq equal to c
Occurrences(seq, c) == Cardinality({i \in 1..Len(seq) : seq[i] = c})

RECURSIVE unquote(_)
\* the text a percent-encoded text stands for
unquote(string) ==
    IF string = <<>> THEN <<>>
    ELSE IF Head(string) = "%"
    THEN <<CHOOSE c \in DOMAIN HexOf : HexOf[c] = SubSeq(string, 2, 3)>>
         \o unquote(SubSeq(string, 4, Len(string)))
    ELSE <<Head(string)>> \o unquote(Tail(string))

\* C16: in get_branch, delete_branch, get_file, create_file, update_file and
\* delete_file the endpoint is projects/<id>/repository/branches|files/
\* followed by the trimmed branch name or file path percent-encoded with no
\* safe character: the last segment holds only unreserved characters and
\* "%XX" escapes, it decodes to the trimmed input, "feature/test-branch"
\* becomes "feature%2Ftest-branch", and the endpoint has four "/" whatever
\* the input.
C16_PercentEncoding ==
    \A p \in Procs : \A n \in 1..Len(reqs[p]) :
        tool[p] \in EncodingTools =>
            LET branchTool == tool[p] \in {"get_branch", "delete_branch"}
                raw == args[p][IF branchTool THEN "branch" ELSE "file_path"].v
                prefix == <<"projects", "/">> \o IntToStr(args[p]["project_id"].v)
                          \o <<"/", "repository", "/",
                               IF branchTool THEN "branches" ELSE "files", "/">>
                e == reqs[p][n].endpoint
                last == SubSeq(e, Len(prefix) + 1, Len(e))
            IN /\ Len(e) > Len(prefix)
               /\ SubSeq(e, 1, Len(prefix)) = prefix
               /\ \A i \in 1..Len(last) : last[i] \in AlwaysSafe \cup {"%"}
               /\ unquote(last) = Strip(raw)
               /\ raw = <<"f", "e", "a", "t", "u", "r", "e", "/", "t", "e", "s", "t", "-", "b", "r", "a", "n", "c", "h">>
                     => last = <<"f", "e", "a", "t", "u", "r", "e", "%", "2", "F", "t", "e", "s", "t", "-", "b", "r", "a", "n", "c", "h">>
               /\ Occurrences(e, "/") = 4

\* get_file has been requested for " a b/c?d#e%f ": the path is trimmed and
\* every reserved character of it is escaped
C16_Witness ==
    /\ tool["p1"] = "get_file"
    /\ Len(reqs["p1"]) = 1
    /\ args["p1"]["file_path"] = PyStr(<<" ", "a", " ", "b", "/", "c", "?", "d", "#", "e", "%", "f", " ">>)
    /\ reqs["p1"][1].endpoint =
          <<"projects", "/", "1", "2", "3", "/", "repository", "/", "files", "/",
            "a", "%", "2", "0", "b", "%", "2", "F", "c", "%", "3", "F", "d",
            "%", "2", "3", "e", "%", "2", "5", "f">>

\* the invocation in slot p has returned the Error Record of an
\* input-validation fault
InvalidInput(p) ==
    /\ Returned(result[p])
    /\ IsErrorRecord(result[p].value)
    /\ result[p].value.error_type = "ValidationError"
    /\ result[p].value.message = Lit("Invalid input")

\* C21: a tool returns the Error Record with error_type ValidationError and
\* message "Invalid input" if and only if one of its checks rejected an
\* argument; whenever it returns that record, it has issued no request.
C21_InvalidInputOnlyFromChecks ==
    \A p \in Procs :
        pc[p] = "done" =>
            /\ InvalidInput(p) <=> SomeArgumentInvalid(p)
            /\ InvalidInput(p) => reqs[p] = <<>>

\* the second half of C21 alone: no request lies behind an "Invalid input"
\* record
C21_NoRequestBehindInvalidInput ==
    \A p \in Procs :
        (pc[p] = "done" /\ InvalidInput(p)) => reqs[p] = <<>>

\* the checks of the tool in slot p that reject the caller's arguments
FailingChecks(p) ==
    {i \in 1..Len(Tools[tool[p]].checks) :
        Raised(RunCheck(Tools[tool[p]].checks[i], args[p]))}

\* the first of them in the order of the tool body
FirstFailing(p) ==
    CHOOSE i \in FailingChecks(p) : \A j \in FailingChecks(p) : i <= j

\* C22: first violation wins.  An ended invocation with one or more invalid
\* arguments has returned one Error Record whose details is the message of
\* the first failing check in the order of the tool body, and no request
\* was issued; inside validate_pagination a fault of page comes before a
\* fault of per_page.
C22_FirstViolationWins ==
    \A p \in Procs :
        (pc[p] = "done" /\ FailingChecks(p) # {}) =>
            LET chk == Tools[tool[p]].checks[FirstFailing(p)]
                fault == RunCheck(chk, args[p]).exc
            IN /\ Returned(result[p])
               /\ IsErrorRecord(result[p].value)
               /\ result[p].value.details = StrOfExc(fault)
               /\ reqs[p] = <<>>
               /\ resp[p] = NoResp
               /\ (chk.c = "pagination" /\ Raised(PaginationInt("page", args[p][chk.a]))) =>
                     result[p].value.details.msg.param = "page"

\* list_merge_request_comments with an invalid project_id, an invalid mr_iid
\* and an invalid per_page has reported the project_id
C22_Witness ==
    /\ pc["p1"] = "done"
    /\ tool["p1"] = "list_merge_request_comments"
    /\ Cardinality(FailingChecks("p1")) = 3
    /\ result["p1"].value.details.msg.param = "project_id"

\* list_projects with page = 0 and per_page = 0 has reported the page
C22_PageFirst ==
    /\ pc["p1"] = "done"
    /\ tool["p1"] = "list_projects"
    /\ args["p1"]["page"] = PyInt(0)
    /\ args["p1"]["per_page"] = PyInt(0)
    /\ result["p1"].value.details.msg.param = "page"

\* the request r carries the URL, the token and the TLS flag of environment e
CarriesEnv(r, e) ==
    LET c == get_gitlab_config(e)
    IN /\ Returned(c)
       /\ r.base_url = c.value.base_url
       /\ r.token = c.value.token
       /\ r.verify = c.value.verify_ssl

\* C23: configuration is never cached.  Whatever invocations and changes of
\* the environment came before, a request that goes out carries the URL,
\* the token and the TLS flag of the environment as it is at that moment;
\* an invocation resolves its Configuration once, from the environment as it
\* is then, and holds none when it starts.
C23_NeverCached ==
    [][\A p \in Procs :
          /\ reqs'[p] # reqs[p] /\ reqs'[p] # <<>> =>
                /\ Len(reqs'[p]) = 1
                /\ CarriesEnv(reqs'[p][1], env)
          /\ cfg'[p] # cfg[p] =>
                \/ cfg'[p] = NoCfg
                \/ /\ cfg[p] = NoCfg
                   /\ Returned(get_gitlab_config(env))
                   /\ cfg'[p] = get_gitlab_config(env).value]_vars

\* an invocation has returned after a request with the first token, the
\* environment was changed, and a second invocation has sent its request
\* with the other token, URL and TLS flag
C23_Witness ==
    /\ pc["p2"] = "done" /\ Len(reqs["p2"]) = 1
    /\ reqs["p2"][1].token = s_tok
    /\ pc["p1"] = "shape" /\ Len(reqs["p1"]) = 1
    /\ reqs["p1"][1].token = s_tok2
    /\ reqs["p1"][1].verify = FALSE
    /\ CarriesEnv(reqs["p1"][1], env)
    /\ ~CarriesEnv(reqs["p2"][1], env)

\* the requests the invocation in slot p issues when it runs alone: one,
\* built from its validated arguments and the environment, once its checks
\* have passed and the configuration has resolved
RequestsAlone(p) ==
    LET checked == RunChecks(Tools[tool[p]].checks, 1, args[p])
        config == get_gitlab_config(env)
    IN IF Returned(checked) /\ Returned(config)
       THEN <<Request(tool[p], checked.value, config.value)>>
       ELSE <<>>

\* C24: concurrent invocations are independent.  In every interleaving of
\* the steps of two invocations under an unchanged environment, each has
\* issued the request and returned the result it issues and returns when it
\* runs alone with the same arguments and the same answer of the remote,
\* and DEFAULT_FIELDS is as the module defined it.
C24_Independent ==
    /\ default_fields = DEFAULT_FIELDS
    /\ \A p \in Procs :
          /\ pc[p] \in {"shape", "done"} /\ resp[p] # NoResp => reqs[p] = RequestsAlone(p)
          /\ pc[p] = "done" =>
                /\ resp[p] = NoResp => reqs[p] = <<>>
                /\ result[p] = handle_gitlab_errors(BodyOutcome(p))

\* two invocations in flight at the same time, of different tools and with
\* different answers of the remote, have both ended without an error
C24_Witness ==
    /\ pc["p1"] = "done" /\ pc["p2"] = "done"
    /\ tool["p1"] = "get_project" /\ tool["p2"] = "list_projects"
    /\ args["p1"]["include_fields"] = PyNone
    /\ args["p2"]["include_fields"] = PyStr(s_id_name)
    /\ resp["p1"] = Response(200, B_record)
    /\ resp["p2"] = Response(200, B_list(1))
    /\ result["p1"] # result["p2"]
    /\ ~IsErrorRecord(result["p1"].value)
    /\ ~IsErrorRecord(result["p2"].value)

\* the startup check has raised the error prefixed "Configuration error"
ConfigurationErrorRaised ==
    /\ fn = "validate_gitlab_connection"
    /\ Raised(fnRet)
    /\ fnRet.exc.msg.text = "Configuration error: "

\* C25: the startup check raises the error prefixed "Configuration error"
\* only when the resolution of the Configuration itself failed, hence only
\* when no probe request has been issued; a fault that arises after a probe
\* request was sent is never reported as "Configuration error".
C25_ConfigurationErrorOnly ==
    ConfigurationErrorRaised =>
        /\ Raised(get_gitlab_config(env))
        /\ reqs["p1"] = <<>>
        /\ fnArgs = <<>>

\* the token is absent or empty
TokenMissing(e) == e.GITLAB_TOKEN \in {PyNone, PyStr(<<>>)}

\* the base URL is set and starts with neither http:// nor https://
UrlWithoutPrefix(e) ==
    /\ e.GITLAB_URL # PyNone
    /\ ~StartsWith(e.GITLAB_URL.v, <<"h", "t", "t", "p", ":", "/", "/">>)
    /\ ~StartsWith(e.GITLAB_URL.v, <<"h", "t", "t", "p", "s", ":", "/", "/">>)

\* C26: configuration faults inside a tool call.  With the token absent or
\* empty, or a base URL without http:// or https://, every ended invocation
\* has issued no request and returned the Error Record with error_type
\* ValidationError and message "Invalid input"; its details is the message
\* of the configuration fault when all arguments are valid, and the message
\* of the first rejected argument otherwise.
C26_ConfigurationFault ==
    \A p \in Procs :
        (pc[p] = "done" /\ (TokenMissing(env) \/ UrlWithoutPrefix(env))) =>
            /\ reqs[p] = <<>>
            /\ InvalidInput(p)
            /\ IF FailingChecks(p) # {}
               THEN result[p].value.details =
                       StrOfExc(RunCheck(Tools[tool[p]].checks[FirstFailing(p)], args[p]).exc)
               ELSE /\ result[p].value.details = StrOfExc(get_gitlab_config(env).exc)
                    /\ result[p].value.details.msg.param =
                          IF TokenMissing(env) THEN "GITLAB_TOKEN" ELSE "GITLAB_URL"

\* get_current_user, a tool without checked arguments, has ended under an
\* empty token with the record of the configuration fault
C26_Witness ==
    /\ pc["p1"] = "done"
    /\ tool["p1"] = "get_current_user"
    /\ env.GITLAB_TOKEN = PyStr(<<>>)
    /\ reqs["p1"] = <<>>
    /\ InvalidInput("p1")
    /\ result["p1"].value.details.msg.param = "GITLAB_TOKEN"

\* get_project with an invalid project_id under a base URL without prefix
\* has reported the project_id
C26_ArgumentFirst ==
    /\ pc["p1"] = "done"
    /\ tool["p1"] = "get_project"
    /\ UrlWithoutPrefix(env)
    /\ args["p1"]["project_id"] = PyInt(-1)
    /\ result["p1"].value.details.msg.param = "project_id"

\* the invocation in slot p has ended after a 2xx answer that decodes
Decoded(p) ==
    /\ pc[p] = "done"
    /\ resp[p] # NoResp
    /\ Returned(resp[p])
    /\ is_success(resp[p].value.status_code)
    /\ Returned(resp[p].value.json)

\* a record reduced to its entry under the empty key, if it has one
OnlyEmptyKey(obj) ==
    IF obj.t = "dict"
    THEN PyDict([k \in (DOMAIN obj.v) \cap {<<>>} |-> obj.v[k]])
    ELSE obj

\* every record of the data reduced so
AllOnlyEmptyKey(data) ==
    IF data.t = "list"
    THEN PyList([i \in 1..Len(data.v) |-> OnlyEmptyKey(data.v[i])])
    ELSE OnlyEmptyKey(data)

\* the tools that test include_fields for truthiness before filtering
GuardedTools == {"get_file", "create_file", "update_file", "list_tags", "create_tag"}

\* what a tool gives back for the shaped value x: x itself, or x as the
\* items of a Paginated Response
Gives(p, x) ==
    IF Tools[tool[p]].shape \in {"list", "list_if"}
    THEN ~IsErrorRecord(result[p].value) => result[p].value.items = x
    ELSE result[p].value = x

\* C27: an empty-string include_fields is not treated as absent.  A tool
\* that passes include_fields straight to filter_fields returns every
\* record of the answer reduced to at most the key "" (an empty record for
\* ordinary data), not to the default set of its resource type; the five
\* tools that test include_fields for truthiness return the answer
\* unfiltered.
C27_EmptyInclude ==
    /\ GuardedTools = {t \in ToolNames : Tools[t].shape \in {"filter_if", "list_if"}}
    /\ {"list_projects", "get_project"} \subseteq
          {t \in ToolNames : Tools[t].shape \in {"filter", "list"}}
    /\ \A p \in Procs :
          (Decoded(p) /\ HasIncludeFields(tool[p])
              /\ args[p]["include_fields"] = PyStr(<<>>)) =>
             LET data == resp[p].value.json.value
             IN IF tool[p] \in GuardedTools
                THEN Gives(p, data)
                ELSE Gives(p, AllOnlyEmptyKey(data))

\* get_project with include_fields = "" has returned an empty record for
\* an ordinary project
C27_Witness ==
    /\ Decoded("p1")
    /\ tool["p1"] = "get_project"
    /\ args["p1"]["include_fields"] = PyStr(<<>>)
    /\ resp["p1"] = Response(200, B_record)
    /\ result["p1"].value = PyDict(EmptyMap)

\* list_tags with include_fields = "" has returned the records unfiltered
C27_Unfiltered ==
    /\ Decoded("p1")
    /\ tool["p1"] = "list_tags"
    /\ args["p1"]["include_fields"] = PyStr(<<>>)
    /\ resp["p1"] = Response(200, B_list(2))
    /\ result["p1"].value.items = RecList(2)

\* out is derived from obj alone: obj itself, or obj with some of its keys
\* removed
DerivedFrom(out, obj) ==
    IF obj.t # "dict" THEN out = obj
    ELSE /\ out.t = "dict"
         /\ DOMAIN out.v \subseteq DOMAIN obj.v
         /\ \A k \in DOMAIN out.v : out.v[k] = obj.v[k]

\* the tools that wrap a list into a Paginated Response
PaginatingTools == {t \in ToolNames : Tools[t].shape \in {"list", "list_if", "list_raw"}}

\* C28: field filtering never changes the number or the order of the items.
\* Whatever include_fields is, a list tool answered with a list of n records
\* returns n items, the i-th derived from the i-th record, and its has_next
\* and next_page are those of n and per_page alone.
C28_FilterKeepsItems ==
    \A p \in Procs :
        (Decoded(p) /\ tool[p] \in PaginatingTools
            /\ resp[p].value.json.value.t = "list") =>
           LET data == resp[p].value.json.value.v
               r == result[p].value
           IN /\ ~IsErrorRecord(r)
              /\ r.items.t = "list"
              /\ Len(r.items.v) = Len(data)
              /\ \A i \in 1..Len(data) : DerivedFrom(r.items.v[i], data[i])
              /\ r.has_next = (Len(data) = vals[p]["per_page"].v)
              /\ r.next_page = IF Len(data) = vals[p]["per_page"].v
                               THEN PyInt(vals[p]["page"].v + 1)
                               ELSE PyNone

\* list_projects with per_page = 2 and include_fields = "", answered with two
\* records, has returned two empty items and has_next
C28_Witness ==
    /\ Decoded("p1")
    /\ tool["p1"] = "list_projects"
    /\ args["p1"]["per_page"] = PyInt(2)
    /\ args["p1"]["include_fields"] = PyStr(<<>>)
    /\ resp["p1"] = Response(200, B_list(2))
    /\ result["p1"].value.items = PyList(<<PyDict(EmptyMap), PyDict(EmptyMap)>>)
    /\ result["p1"].value.has_next = TRUE

\* C29: all positive-integer-ID checks are the same function up to the
\* parameter name.  For every input, validate_project_id, validate_group_id,
\* validate_user_id, validate_iid and the check of issue_iid written inline
\* in the issue tools agree on accept versus reject, return the same integer
\* on accept, and on reject raise messages that differ only in the parameter
\* name.
C29_SameCheck ==
    fn \in PositiveIntValidators =>
        \A other \in PositiveIntValidators :
            LET mine == fnRet
                theirs == CallValidator(other, fnArgs[1])
            IN /\ Returned(mine) <=> Returned(theirs)
               /\ Returned(mine) => mine.value = theirs.value
               /\ Raised(mine) =>
                     /\ mine.exc.cls = theirs.exc.cls
                     /\ mine.exc.msg.param = ParamOf(fn)
                     /\ theirs.exc.msg.param = ParamOf(other)
                     /\ [mine.exc.msg EXCEPT !.param = ""] = [theirs.exc.msg EXCEPT !.param = ""]

\* the inline check of issue_iid has accepted the string " 7 " as 7
C29_Witness ==
    /\ fn = "check_issue_iid"
    /\ fnArgs[1] = PyStr(<<" ", "7", " ">>)
    /\ fnRet = Return(PyInt(7))
    /\ validate_project_id(fnArgs[1]) = fnRet

\* the inline check of issue_iid has rejected the float 12.0 as
\* validate_group_id does
C29_FloatRejected ==
    /\ fn = "check_issue_iid"
    /\ fnArgs[1] = PyFloat(12, 0)
    /\ Raised(fnRet)
    /\ fnRet.exc.msg.param = "issue_iid"
    /\ Raised(validate_group_id(fnArgs[1]))

\* the endpoint of the n-th request of slot p after its first Len(prefix)
\* elements
Suffix(p, n, prefix) ==
    SubSeq(reqs[p][n].endpoint, Len(prefix) + 1, Len(reqs[p][n].endpoint))

\* C30: get_commit inserts the trimmed sha into the endpoint verbatim.  Its
\* endpoint is projects/<project_id>/repository/commits/ followed by exactly
\* the trimmed sha, so every "/" of the sha is one more "/" of the endpoint
\* and a "?", "#" or "%" of the sha stands in the endpoint as it is; the
\* branch-name and file-path tools leave none of these characters of their
\* argument unescaped.
C30_ShaVerbatim ==
    \A p \in Procs : \A n \in 1..Len(reqs[p]) :
        /\ tool[p] = "get_commit" =>
              LET sha == Strip(args[p]["sha"].v)
                  prefix == <<"projects", "/">> \o IntToStr(args[p]["project_id"].v)
                            \o <<"/", "repository", "/", "commits", "/">>
                  e == reqs[p][n].endpoint
              IN /\ e = prefix \o sha
                 /\ Occurrences(e, "/") = 4 + Occurrences(sha, "/")
                 /\ \A c \in {"?", "#", "%"} : Occurrences(e, c) = Occurrences(sha, c)
        /\ tool[p] \in EncodingTools =>
              LET e == reqs[p][n].endpoint
              IN /\ Occurrences(e, "/") = 4
                 /\ Occurrences(e, "?") = 0
                 /\ Occurrences(e, "#") = 0

\* get_commit has been requested for the sha " a b/c?d#e%f ": the endpoint
\* has five "/" and the "?", "#" and "%" of the sha
C30_Witness ==
    /\ tool["p1"] = "get_commit"
    /\ Len(reqs["p1"]) = 1
    /\ args["p1"]["sha"].v = <<" ", "a", " ", "b", "/", "c", "?", "d", "#", "e", "%", "f", " ">>
    /\ Suffix("p1", 1, <<"projects", "/", "1", "2", "3", "/", "repository", "/", "commits", "/">>)
          = <<"a", " ", "b", "/", "c", "?", "d", "#", "e", "%", "f">>
    /\ Occurrences(reqs["p1"][1].endpoint, "/") = 5

====
